---------------------------- MODULE Spec2Model ----------------------------
(***************************************************************************)
(* Model of the two engines of my-workspace-dash:                          *)
(*   - the recurrence-rule engine (src/lib/rruleUtils.ts)                  *)
(*   - the Gmail message normalisation (src/unnamed/part_004, gmailApi)    *)
(*                                                                         *)
(* JavaScript strings are sequences of one-character strings, so that      *)
(* split, replace, toUpperCase, parseInt and regular-expression matching   *)
(* are computed character by character as the code computes them.          *)
(* A JavaScript object with optional fields is a function whose domain is  *)
(* the set of the fields that are set.                                     *)
(***************************************************************************)
EXTENDS Integers, Sequences, FiniteSets, TLC

VARIABLES
    rrPc,       \* position of the caller of the recurrence functions
    rrIn,       \* the input handed to the recurrence engine (string, rule or UI state)
    rrText,     \* the latest rule string (result of buildRRule / uiStateToRRule)
    rrRule,     \* the latest structured rule (result of parseRRule), or Null
    rrFirst,    \* the structured rule of the first parseRRule call of a pipeline
    rrUi,       \* the latest RecurrenceUIState (result of rruleToUIState)
    rrLabel,    \* result of getRecurrenceLabel
    rrDesc,     \* result of rruleToJapanese
    exPc,       \* position of the caller of the payload walker
    exPayload,  \* the payload (root GmailMessagePayload) handed to the walker
    exBody,     \* outcome of extractBody: [threw, value]
    exFound,    \* the body candidates extractBody found: [htmlBody, textBody]
    exAttachments, \* result of extractAttachments
    exImages,   \* result of extractInlineImageParts
    cidPc,      \* position of the caller of replaceCidWithDataUri
    cidSegments,\* the pieces the body handed to replaceCidWithDataUri is made of
    cidBody,    \* the body handed to replaceCidWithDataUri
    cidImages,  \* the resolved inline images handed to replaceCidWithDataUri
    cidResult,  \* result of replaceCidWithDataUri
    mbPc,       \* position of fetchThread
    mbRaw,      \* the raw messages of the thread (data.messages)
    mbTasks,    \* the processInlineImages call of each formatted message
    mbEmails,   \* the messages fetchThread returns
    txPc,       \* position of the caller of convertTextToHtml
    txText,     \* the plain-text body handed to convertTextToHtml
    txHtml      \* result of convertTextToHtml

rrVars == <<rrPc, rrIn, rrText, rrRule, rrFirst, rrUi, rrLabel, rrDesc>>
exVars == <<exPc, exPayload, exBody, exFound, exAttachments, exImages>>
cidVars == <<cidPc, cidSegments, cidBody, cidImages, cidResult>>
mbVars == <<mbPc, mbRaw, mbTasks, mbEmails>>
txVars == <<txPc, txText, txHtml>>

-----------------------------------------------------------------------------
(* Bounds *)

\* number of clause fragments joined by ';' in an input rule string
MaxFragments == 2

\* number of optional fields set in an input RecurrenceRule
MaxSetFields == 2

\* largest interval of an input RecurrenceRule or RecurrenceUIState
MaxInterval == 2

\* number of parts below the root of an input payload tree
MaxParts == 3

\* number of pieces (texts and image-source references) of an input body
MaxSegments == 2

\* number of raw messages of an input thread
MaxBatch == 2

\* number of pieces of an input plain-text body
MaxTextPieces == 3

\* number of payload headers of an input message
MaxHeaders == 2

-----------------------------------------------------------------------------
(* JavaScript string primitives *)

UpperLetters == <<"A","B","C","D","E","F","G","H","I","J","K","L","M",
                  "N","O","P","Q","R","S","T","U","V","W","X","Y","Z">>
LowerLetters == <<"a","b","c","d","e","f","g","h","i","j","k","l","m",
                  "n","o","p","q","r","s","t","u","v","w","x","y","z">>
DigitChars == <<"0","1","2","3","4","5","6","7","8","9">>

\* 1-based index of c in table tbl, 0 when absent
IndexIn(c, tbl) ==
    IF \E i \in 1..Len(tbl) : tbl[i] = c
    THEN CHOOSE i \in 1..Len(tbl) : tbl[i] = c
    ELSE 0

\* the case mappings of the ASCII letters, as tables
UpperOf == [c \in {LowerLetters[i] : i \in 1..26} |-> UpperLetters[IndexIn(c, LowerLetters)]]
LowerOf == [c \in {UpperLetters[i] : i \in 1..26} |-> LowerLetters[IndexIn(c, UpperLetters)]]
DigitOf == [c \in {DigitChars[i] : i \in 1..10} |-> IndexIn(c, DigitChars) - 1]

IsUpperLetter(c) == c \in DOMAIN LowerOf
IsDigit(c) == c \in DOMAIN DigitOf

toUpperCaseChar(c) == IF c \in DOMAIN UpperOf THEN UpperOf[c] ELSE c

toLowerCaseChar(c) == IF c \in DOMAIN LowerOf THEN LowerOf[c] ELSE c

toUpperCase(s) == [i \in 1..Len(s) |-> toUpperCaseChar(s[i])]
toLowerCase(s) == [i \in 1..Len(s) |-> toLowerCaseChar(s[i])]

\* String.prototype.substring(from, to) with 0-based, end-exclusive indices
substring(s, from, to) ==
    LET t == IF to > Len(s) THEN Len(s) ELSE to
    IN  IF from >= t THEN <<>> ELSE SubSeq(s, from + 1, t)

\* s.startsWith(p)
startsWith(s, p) == Len(s) >= Len(p) /\ SubSeq(s, 1, Len(p)) = p

\* s.endsWith(p)
endsWith(s, p) == Len(s) >= Len(p) /\ SubSeq(s, Len(s) - Len(p) + 1, Len(s)) = p

\* s.indexOf(c, i - 1) + 1: the first position >= i of the character c, 0 when none
RECURSIVE indexOfFrom(_, _, _)
indexOfFrom(s, c, i) ==
    IF i > Len(s) THEN 0
    ELSE IF s[i] = c THEN i
    ELSE indexOfFrom(s, c, i + 1)

\* String.prototype.split(sep) for a one-character separator
RECURSIVE split(_, _)
split(s, sep) ==
    LET i == indexOfFrom(s, sep, 1)
    IN  IF i = 0 THEN <<s>>
        ELSE <<SubSeq(s, 1, i - 1)>> \o split(SubSeq(s, i + 1, Len(s)), sep)

\* Array.prototype.join(sep) on an array of strings
RECURSIVE join(_, _)
join(list, sep) ==
    IF list = <<>> THEN <<>>
    ELSE IF Len(list) = 1 THEN list[1]
    ELSE list[1] \o sep \o join(Tail(list), sep)

\* s.replace(/c/g, r): every occurrence of the character c becomes the string r
RECURSIVE replaceChar(_, _, _)
replaceChar(s, c, r) ==
    IF s = <<>> THEN <<>>
    ELSE (IF Head(s) = c THEN r ELSE <<Head(s)>>) \o replaceChar(Tail(s), c, r)

-----------------------------------------------------------------------------
(* JavaScript numbers: integers, and NaN as a value outside the modelled    *)
(* integer range (it is falsy, and every ordering comparison with it fails) *)

NaN == -1000000

IsNaN(n) == n = NaN

\* truthiness of a number: neither 0 nor NaN
TruthyNum(n) == n # 0 /\ ~IsNaN(n)

\* truthiness of a string: not empty
TruthyStr(s) == s # <<>>

\* value of a string of decimal digits
RECURSIVE digitsValue(_)
digitsValue(ds) ==
    IF ds = <<>> THEN 0
    ELSE 10 * digitsValue(SubSeq(ds, 1, Len(ds) - 1)) + DigitOf[ds[Len(ds)]]

\* number of leading decimal digits of s
RECURSIVE leadingDigits(_)
leadingDigits(s) ==
    IF s # <<>> /\ IsDigit(Head(s)) THEN 1 + leadingDigits(Tail(s)) ELSE 0

\* leading white space removed
RECURSIVE trimStart(_)
trimStart(s) == IF s # <<>> /\ Head(s) = " " THEN trimStart(Tail(s)) ELSE s

\* parseInt(s, 10): optional white space, optional sign, the leading digits;
\* NaN when there is no digit
parseInt(s) ==
    LET t == trimStart(s)
        signed == t # <<>> /\ Head(t) \in {"-", "+"}
        u == IF signed THEN Tail(t) ELSE t
        n == leadingDigits(u)
    IN  IF n = 0 THEN NaN
        ELSE IF signed /\ Head(t) = "-" THEN 0 - digitsValue(SubSeq(u, 1, n))
        ELSE digitsValue(SubSeq(u, 1, n))

\* decimal digits of a natural number
RECURSIVE natToString(_)
natToString(n) ==
    IF n < 10 THEN <<DigitChars[n + 1]>>
    ELSE natToString(n \div 10) \o <<DigitChars[(n % 10) + 1]>>

\* `${n}` : template-literal conversion of a number
numToString(n) ==
    IF IsNaN(n) THEN <<"N","a","N">>
    ELSE IF n < 0 THEN <<"-">> \o natToString(0 - n)
    ELSE natToString(n)

-----------------------------------------------------------------------------
(* Objects with optional fields *)

Has(obj, k) == k \in DOMAIN obj

\* obj.k = v
SetField(obj, k, v) == [x \in (DOMAIN obj) \cup {k} |-> IF x = k THEN v ELSE obj[x]]

\* {} : the object with no field set
EmptyObject == [x \in {} |-> 0]

\* the null returned by parseRRule
Null == [isNull |-> TRUE]

-----------------------------------------------------------------------------
(* String literals of src/lib/rruleUtils.ts *)

sRRULE == <<"R","R","U","L","E",":">>
sFREQ == <<"F","R","E","Q">>
sINTERVAL == <<"I","N","T","E","R","V","A","L">>
sCOUNT == <<"C","O","U","N","T">>
sUNTIL == <<"U","N","T","I","L">>
sBYDAY == <<"B","Y","D","A","Y">>
sBYMONTHDAY == <<"B","Y","M","O","N","T","H","D","A","Y">>
sBYMONTH == <<"B","Y","M","O","N","T","H">>
sBYSETPOS == <<"B","Y","S","E","T","P","O","S">>
sWKST == <<"W","K","S","T">>
sDAILY == <<"D","A","I","L","Y">>
sWEEKLY == <<"W","E","E","K","L","Y">>
sMONTHLY == <<"M","O","N","T","H","L","Y">>
sYEARLY == <<"Y","E","A","R","L","Y">>

\* RecurrenceRule['freq']
Frequencies == {sDAILY, sWEEKLY, sMONTHLY, sYEARLY}

-----------------------------------------------------------------------------
(* parseRRule *)

\* the prefix removed only when written in upper case
stripPrefixUpperCaseOnly(s) ==
    IF Len(s) >= Len(sRRULE) /\ SubSeq(s, 1, Len(sRRULE)) = sRRULE
    THEN SubSeq(s, Len(sRRULE) + 1, Len(s))
    ELSE s

\* rruleString.replace(/^RRULE:/i, '')
stripPrefix(s) ==
    IF Len(s) >= Len(sRRULE) /\ toUpperCase(SubSeq(s, 1, Len(sRRULE))) = sRRULE
    THEN SubSeq(s, Len(sRRULE) + 1, Len(s))
    ELSE s

\* value.split(',').map(v => parseInt(v, 10))
parseIntList(value) ==
    LET items == split(value, ",") IN [i \in 1..Len(items) |-> parseInt(items[i])]

\* the body of the for loop: one clause applied to the partial result
parseClause(part, result) ==
    LET kv == split(part, "=")
        key == kv[1]
        value == kv[2]
    IN  IF key = <<>> \/ Len(kv) < 2 THEN result
        ELSE IF value = <<>> THEN result
        ELSE LET K == toUpperCase(key) IN
             CASE K = sFREQ       -> SetField(result, "freq", toUpperCase(value))
               [] K = sINTERVAL   -> SetField(result, "interval", parseInt(value))
               [] K = sCOUNT      -> SetField(result, "count", parseInt(value))
               [] K = sUNTIL      -> SetField(result, "until", value)
               [] K = sBYDAY      -> SetField(result, "byDay", split(value, ","))
               [] K = sBYMONTHDAY -> SetField(result, "byMonthDay", parseIntList(value))
               [] K = sBYMONTH    -> SetField(result, "byMonth", parseIntList(value))
               [] K = sBYSETPOS   -> SetField(result, "bySetPos", parseIntList(value))
               [] K = sWKST       -> SetField(result, "wkst", value)
               [] OTHER           -> result

RECURSIVE parseClauses(_, _)
parseClauses(parts, result) ==
    IF parts = <<>> THEN result
    ELSE parseClauses(Tail(parts), parseClause(Head(parts), result))

parseRRule(rruleString) ==
    IF rruleString = <<>> THEN Null
    ELSE LET rule == stripPrefix(rruleString)
             result == parseClauses(split(rule, ";"), EmptyObject)
         IN  IF ~Has(result, "freq") THEN Null ELSE result

-----------------------------------------------------------------------------
(* buildRRule *)

\* numbers.join(',')
joinNums(nums) == join([i \in 1..Len(nums) |-> numToString(nums[i])], <<",">>)

\* `KEY=${value}`
clause(key, value) == key \o <<"=">> \o value

buildInterval(rule) ==
    IF Has(rule, "interval") /\ TruthyNum(rule.interval) /\ rule.interval > 1
    THEN <<clause(sINTERVAL, numToString(rule.interval))>> ELSE <<>>

\* buildRRule forgetting the COUNT clause
buildCountMissing(rule) == <<>>

buildCount(rule) ==
    IF Has(rule, "count") /\ TruthyNum(rule.count)
    THEN <<clause(sCOUNT, numToString(rule.count))>> ELSE <<>>

buildUntil(rule) ==
    IF Has(rule, "until") /\ TruthyStr(rule.until)
    THEN <<clause(sUNTIL, rule.until)>> ELSE <<>>

\* buildRRule joining the BYDAY entries with ';' instead of ','
buildByDaySemicolon(rule) ==
    IF Has(rule, "byDay") /\ Len(rule.byDay) > 0
    THEN <<clause(sBYDAY, join(rule.byDay, <<";">>))>> ELSE <<>>

buildByDay(rule) ==
    IF Has(rule, "byDay") /\ Len(rule.byDay) > 0
    THEN <<clause(sBYDAY, join(rule.byDay, <<",">>))>> ELSE <<>>

buildByMonthDay(rule) ==
    IF Has(rule, "byMonthDay") /\ Len(rule.byMonthDay) > 0
    THEN <<clause(sBYMONTHDAY, joinNums(rule.byMonthDay))>> ELSE <<>>

buildByMonth(rule) ==
    IF Has(rule, "byMonth") /\ Len(rule.byMonth) > 0
    THEN <<clause(sBYMONTH, joinNums(rule.byMonth))>> ELSE <<>>

buildBySetPos(rule) ==
    IF Has(rule, "bySetPos") /\ Len(rule.bySetPos) > 0
    THEN <<clause(sBYSETPOS, joinNums(rule.bySetPos))>> ELSE <<>>

buildWkst(rule) ==
    IF Has(rule, "wkst") /\ TruthyStr(rule.wkst)
    THEN <<clause(sWKST, rule.wkst)>> ELSE <<>>

\* buildRRule with its clauses sorted by key
buildRRuleSorted(rule) ==
    LET parts == buildByDay(rule) \o buildByMonth(rule) \o buildByMonthDay(rule)
                   \o buildBySetPos(rule) \o buildCount(rule)
                   \o <<clause(sFREQ, rule.freq)>>
                   \o buildInterval(rule) \o buildUntil(rule) \o buildWkst(rule)
    IN  sRRULE \o join(parts, <<";">>)

buildRRule(rule) ==
    LET parts == <<clause(sFREQ, rule.freq)>>
                   \o buildInterval(rule) \o buildCount(rule) \o buildUntil(rule)
                   \o buildByDay(rule) \o buildByMonthDay(rule) \o buildByMonth(rule)
                   \o buildBySetPos(rule) \o buildWkst(rule)
    IN  sRRULE \o join(parts, <<";">>)

-----------------------------------------------------------------------------
(* Japanese text: every kana or kanji of the source's string literals is one *)
(* character of the model, written as its reading                            *)

kMai == "<mai>"       \* U+6BCE
kNichi == "<nichi>"   \* U+65E5
kShuu == "<shuu>"     \* U+9031
kGetsu == "<getsu>"   \* U+6708
kNen == "<nen>"       \* U+5E74
kYou == "<you>"       \* U+66DC
kKa == "<ka>"         \* U+706B
kSui == "<sui>"       \* U+6C34
kMoku == "<moku>"     \* U+6728
kKin == "<kin>"       \* U+91D1
kDo == "<do>"         \* U+571F
kDai == "<dai>"       \* U+7B2C
kSai == "<sai>"       \* U+6700
kOwari == "<owari>"   \* U+7D42
kKan == "<kan>"       \* U+9593
kKai == "<kai>"       \* U+56DE
hGo == "<go>"         \* U+3054
hTo == "<to>"         \* U+3068
hKa == "<hka>"        \* U+304B
hMa == "<ma>"         \* U+307E
hDe == "<de>"         \* U+3067
pTouten == "<,>"      \* U+3001
pNakaten == "<.>"     \* U+30FB

sYoubi == <<kYou, kNichi>>
sSaishuu == <<kSai, kOwari>>
sMade == <<hMa, hDe>>
sGoto == <<hGo, hTo>>

sMO == <<"M","O">>
sTU == <<"T","U">>
sWE == <<"W","E">>
sTH == <<"T","H">>
sFR == <<"F","R">>
sSA == <<"S","A">>
sSU == <<"S","U">>

\* WEEKDAY_MAP[d]; the empty string stands for undefined
WEEKDAY_MAP(d) ==
    CASE d = sMO -> <<kGetsu>> \o sYoubi
      [] d = sTU -> <<kKa>> \o sYoubi
      [] d = sWE -> <<kSui>> \o sYoubi
      [] d = sTH -> <<kMoku>> \o sYoubi
      [] d = sFR -> <<kKin>> \o sYoubi
      [] d = sSA -> <<kDo>> \o sYoubi
      [] d = sSU -> <<kNichi>> \o sYoubi
      [] OTHER -> <<>>

\* FREQ_MAP[f]; the empty string stands for undefined
FREQ_MAP(f) ==
    CASE f = sDAILY -> <<kMai, kNichi>>
      [] f = sWEEKLY -> <<kMai, kShuu>>
      [] f = sMONTHLY -> <<kMai, kGetsu>>
      [] f = sYEARLY -> <<kMai, kNen>>
      [] OTHER -> <<>>

\* ORDINAL_MAP[n]; the empty string stands for undefined
ORDINAL_MAP(n) ==
    IF n \in 1..5 THEN <<kDai>> \o numToString(n)
    ELSE IF n = -1 THEN sSaishuu
    ELSE <<>>

\* a || b on strings
OrStr(a, b) == IF TruthyStr(a) THEN a ELSE b

-----------------------------------------------------------------------------
(* Regular expressions on BYDAY entries *)

\* /^-?\d+$/
IsSignedDigits(s) ==
    LET u == IF s # <<>> /\ Head(s) = "-" THEN Tail(s) ELSE s
    IN  u # <<>> /\ \A i \in 1..Len(u) : IsDigit(u[i])

\* /^[A-Z]{2}$/.test(d)
IsSimpleDay(d) == Len(d) = 2 /\ IsUpperLetter(d[1]) /\ IsUpperLetter(d[2])

\* /^-?\d+[A-Z]{2}$/.test(d)
IsOrdinalDay(d) ==
    /\ Len(d) > 2
    /\ IsSimpleDay(SubSeq(d, Len(d) - 1, Len(d)))
    /\ IsSignedDigits(SubSeq(d, 1, Len(d) - 2))

\* d.match(/^(-?\d+)?([A-Z]{2})$/): group 1 is empty when it did not take part
matchDay(d) ==
    IF IsSimpleDay(d) THEN [matched |-> TRUE, ordinal |-> <<>>, weekday |-> d]
    ELSE IF IsOrdinalDay(d)
    THEN [matched |-> TRUE, ordinal |-> SubSeq(d, 1, Len(d) - 2),
          weekday |-> SubSeq(d, Len(d) - 1, Len(d))]
    ELSE [matched |-> FALSE, ordinal |-> <<>>, weekday |-> <<>>]

-----------------------------------------------------------------------------
(* rruleToJapanese *)

japaneseInterval(rule) ==
    IF Has(rule, "interval") /\ TruthyNum(rule.interval) /\ rule.interval > 1
    THEN CASE rule.freq = sDAILY -> <<numToString(rule.interval) \o <<kNichi>> \o sGoto>>
           [] rule.freq = sWEEKLY -> <<numToString(rule.interval) \o <<kShuu, kKan>> \o sGoto>>
           [] rule.freq = sMONTHLY -> <<numToString(rule.interval) \o <<hKa, kGetsu>> \o sGoto>>
           [] rule.freq = sYEARLY -> <<numToString(rule.interval) \o <<kNen>> \o sGoto>>
           [] OTHER -> <<>>
    ELSE <<OrStr(FREQ_MAP(rule.freq), rule.freq)>>

\* the text of one BYDAY entry, as a list of zero or one dayParts
japaneseDay(day) ==
    LET m == matchDay(day) IN
    IF ~m.matched THEN <<>>
    ELSE LET weekdayText == OrStr(WEEKDAY_MAP(m.weekday), m.weekday) IN
         IF TruthyStr(m.ordinal)
         THEN LET ordinalNum == parseInt(m.ordinal)
                  ordinalText == OrStr(ORDINAL_MAP(ordinalNum), <<kDai>> \o numToString(ordinalNum))
              IN  <<ordinalText \o weekdayText>>
         ELSE <<weekdayText>>

RECURSIVE japaneseDayParts(_)
japaneseDayParts(days) ==
    IF days = <<>> THEN <<>> ELSE japaneseDay(Head(days)) \o japaneseDayParts(Tail(days))

parenthesized(items) == <<"(">> \o join(items, <<pTouten>>) \o <<")">>

japaneseByDay(rule) ==
    IF Has(rule, "byDay") /\ Len(rule.byDay) > 0
    THEN LET dayParts == japaneseDayParts(rule.byDay)
         IN  IF Len(dayParts) > 0 THEN <<parenthesized(dayParts)>> ELSE <<>>
    ELSE <<>>

japaneseMonthDay(d) == IF d = -1 THEN sSaishuu \o <<kNichi>> ELSE numToString(d) \o <<kNichi>>

japaneseByMonthDay(rule) ==
    IF Has(rule, "byMonthDay") /\ Len(rule.byMonthDay) > 0
    THEN <<parenthesized([i \in 1..Len(rule.byMonthDay) |-> japaneseMonthDay(rule.byMonthDay[i])])>>
    ELSE <<>>

japaneseByMonth(rule) ==
    IF Has(rule, "byMonth") /\ Len(rule.byMonth) > 0
    THEN <<parenthesized([i \in 1..Len(rule.byMonth) |-> numToString(rule.byMonth[i]) \o <<kGetsu>>])>>
    ELSE <<>>

japaneseCount(rule) ==
    IF Has(rule, "count") /\ TruthyNum(rule.count)
    THEN <<numToString(rule.count) \o <<kKai>> \o sMade>>
    ELSE <<>>

japaneseUntil(rule) ==
    IF Has(rule, "until") /\ TruthyStr(rule.until)
    THEN LET year == substring(rule.until, 0, 4)
             month == substring(rule.until, 4, 6)
             day == substring(rule.until, 6, 8)
         IN  <<year \o <<kNen>> \o numToString(parseInt(month)) \o <<kGetsu>>
                \o numToString(parseInt(day)) \o <<kNichi>> \o sMade>>
    ELSE <<>>

rruleToJapanese(rruleString) ==
    LET rule == parseRRule(rruleString) IN
    IF rule = Null THEN rruleString
    ELSE join(japaneseInterval(rule) \o japaneseByDay(rule) \o japaneseByMonthDay(rule)
                \o japaneseByMonth(rule) \o japaneseCount(rule) \o japaneseUntil(rule),
              <<" ">>)

-----------------------------------------------------------------------------
(* RecurrenceUIState *)

getDefaultRecurrenceUIState ==
    [ enabled |-> FALSE,
      freq |-> sWEEKLY,
      interval |-> 1,
      weeklyDays |-> <<>>,
      monthlyType |-> "dayOfMonth",
      monthlyDayOfMonth |-> 1,
      monthlyWeekOrdinal |-> 1,
      monthlyWeekDay |-> sMO,
      endType |-> "never",
      endCount |-> 10,
      endUntil |-> <<>> ]

\* array.filter(pred) for the two-letter weekday test
RECURSIVE filterSimpleDays(_)
filterSimpleDays(days) ==
    IF days = <<>> THEN <<>>
    ELSE (IF IsSimpleDay(Head(days)) THEN <<Head(days)>> ELSE <<>>)
           \o filterSimpleDays(Tail(days))

\* array.find(d => /^-?\d+[A-Z]{2}$/.test(d)): the first such entry, or the
\* empty string for undefined
RECURSIVE findOrdinalDay(_)
findOrdinalDay(days) ==
    IF days = <<>> THEN <<>>
    ELSE IF IsOrdinalDay(Head(days)) THEN Head(days)
    ELSE findOrdinalDay(Tail(days))

\* lines 306-323: the BYDAY part of rruleToUIState
uiStateByDay(rule, state) ==
    IF Has(rule, "byDay") /\ Len(rule.byDay) > 0
    THEN LET simpleDays == filterSimpleDays(rule.byDay)
             s1 == IF Len(simpleDays) > 0
                   THEN [state EXCEPT !.weeklyDays = simpleDays] ELSE state
             ordinalDay == findOrdinalDay(rule.byDay)
             m == matchDay(ordinalDay)
         IN  IF TruthyStr(ordinalDay) /\ m.matched /\ m.ordinal # <<>>
             THEN [s1 EXCEPT !.monthlyType = "dayOfWeek",
                             !.monthlyWeekOrdinal = parseInt(m.ordinal),
                             !.monthlyWeekDay = m.weekday]
             ELSE s1
    ELSE state

\* lines 326-329: the BYMONTHDAY part of rruleToUIState
uiStateByMonthDay(rule, state) ==
    IF Has(rule, "byMonthDay") /\ Len(rule.byMonthDay) > 0
    THEN [state EXCEPT !.monthlyType = "dayOfMonth",
                       !.monthlyDayOfMonth = rule.byMonthDay[1]]
    ELSE state

\* the end condition with the date left as the rule writes it, YYYYMMDD
uiStateEndCompactDate(rule, state) ==
    IF Has(rule, "count") /\ TruthyNum(rule.count)
    THEN [state EXCEPT !.endType = "count", !.endCount = rule.count]
    ELSE IF Has(rule, "until") /\ TruthyStr(rule.until)
    THEN [state EXCEPT !.endType = "until", !.endUntil = rule.until]
    ELSE state

\* lines 332-342: the end condition of rruleToUIState
uiStateEnd(rule, state) ==
    IF Has(rule, "count") /\ TruthyNum(rule.count)
    THEN [state EXCEPT !.endType = "count", !.endCount = rule.count]
    ELSE IF Has(rule, "until") /\ TruthyStr(rule.until)
    THEN [state EXCEPT !.endType = "until",
                       !.endUntil = substring(rule.until, 0, 4) \o <<"-">>
                                      \o substring(rule.until, 4, 6) \o <<"-">>
                                      \o substring(rule.until, 6, 8)]
    ELSE state

\* lines 298-344: the state of a parsed rule
uiStateOfRule(rule, defaultState) ==
    LET state == [defaultState EXCEPT
                     !.enabled = TRUE,
                     !.freq = rule.freq,
                     !.interval = IF Has(rule, "interval") /\ TruthyNum(rule.interval)
                                  THEN rule.interval ELSE 1]
    IN  uiStateEnd(rule, uiStateByMonthDay(rule, uiStateByDay(rule, state)))

\* rruleToUIState without the early return for an unparseable rule: the state
\* is marked enabled
rruleToUIStateNoNullReturn(rruleString) ==
    LET defaultState == getDefaultRecurrenceUIState IN
    IF rruleString = <<>> THEN defaultState
    ELSE LET rule == parseRRule(rruleString) IN
         IF rule = Null THEN [defaultState EXCEPT !.enabled = TRUE]
         ELSE uiStateOfRule(rule, defaultState)

rruleToUIState(rruleString) ==
    LET defaultState == getDefaultRecurrenceUIState IN
    IF rruleString = <<>> THEN defaultState
    ELSE LET rule == parseRRule(rruleString) IN
         IF rule = Null THEN defaultState
         ELSE uiStateOfRule(rule, defaultState)

\* lines 355-375: the structured rule uiStateToRRule builds before the end condition
uiStateRule(state) ==
    LET base == [freq |-> state.freq]
        rule == IF state.interval > 1 /\ ~IsNaN(state.interval)
                THEN SetField(base, "interval", state.interval) ELSE base
    IN  CASE state.freq = sWEEKLY ->
               IF Len(state.weeklyDays) > 0
               THEN SetField(rule, "byDay", state.weeklyDays) ELSE rule
          [] state.freq = sMONTHLY ->
               IF state.monthlyType = "dayOfMonth"
               THEN SetField(rule, "byMonthDay", <<state.monthlyDayOfMonth>>)
               ELSE SetField(rule, "byDay",
                             <<numToString(state.monthlyWeekOrdinal) \o state.monthlyWeekDay>>)
          [] OTHER -> rule

\* the end condition written without looking at endType: the count is set
\* whenever the state carries one
uiStateRuleEndAlwaysCount(state, rule) ==
    LET counted == SetField(rule, "count", state.endCount)
    IN  IF state.endType = "until" /\ TruthyStr(state.endUntil)
        THEN SetField(counted, "until", replaceChar(state.endUntil, "-", <<>>))
        ELSE counted

\* lines 377-383: the end condition of uiStateToRRule
uiStateRuleEnd(state, rule) ==
    IF state.endType = "count" THEN SetField(rule, "count", state.endCount)
    ELSE IF state.endType = "until" /\ TruthyStr(state.endUntil)
    THEN SetField(rule, "until", replaceChar(state.endUntil, "-", <<>>))
    ELSE rule

\* uiStateToRRule without the check of the enabled flag
uiStateToRRuleIgnoringEnabled(state) ==
    buildRRule(uiStateRuleEnd(state, uiStateRule(state)))

uiStateToRRule(state) ==
    IF ~state.enabled THEN <<>>
    ELSE buildRRule(uiStateRuleEnd(state, uiStateRule(state)))

-----------------------------------------------------------------------------
(* getRecurrenceLabel *)

\* `${interval}<unit>ごと` or the every-<unit> text when the interval is 1
labelEvery(interval, every, unit) ==
    IF interval = 1 THEN every ELSE numToString(interval) \o unit \o sGoto

\* WEEKDAY_MAP[d]?.replace('曜日', '') || d
labelWeekday(d) ==
    LET full == WEEKDAY_MAP(d)
        short == IF full = <<>> THEN <<>> ELSE SubSeq(full, 1, Len(full) - Len(sYoubi))
    IN  OrStr(short, d)

labelWeekly(rule, interval) ==
    IF Has(rule, "byDay") /\ Len(rule.byDay) > 0
    THEN LET days == join([i \in 1..Len(rule.byDay) |-> labelWeekday(rule.byDay[i])],
                          <<pNakaten>>)
         IN  (IF interval = 1 THEN <<kMai, kShuu>>
              ELSE numToString(interval) \o <<kShuu>> \o sGoto) \o <<" ">> \o days
    ELSE labelEvery(interval, <<kMai, kShuu>>, <<kShuu, kKan>>)

labelMonthly(rule, interval) ==
    LET dayMatch == matchDay(rule.byDay[1])
        prefix == labelEvery(interval, <<kMai, kGetsu>>, <<hKa, kGetsu>>)
    IN  IF Has(rule, "byDay") /\ Len(rule.byDay) > 0
           /\ dayMatch.matched /\ TruthyStr(dayMatch.ordinal)
        THEN LET ordinal == parseInt(dayMatch.ordinal)
                 day == OrStr(WEEKDAY_MAP(dayMatch.weekday), dayMatch.weekday)
                 ordinalText == IF ordinal = -1 THEN sSaishuu
                                ELSE <<kDai>> \o numToString(ordinal)
             IN  prefix \o ordinalText \o day
        ELSE IF Has(rule, "byMonthDay") /\ Len(rule.byMonthDay) > 0
        THEN prefix \o numToString(rule.byMonthDay[1]) \o <<kNichi>>
        ELSE prefix

\* lines 397-427: the label of a parsed rule
labelOfRule(rule, rruleString) ==
    LET interval == IF Has(rule, "interval") /\ TruthyNum(rule.interval)
                    THEN rule.interval ELSE 1
    IN  CASE rule.freq = sDAILY -> labelEvery(interval, <<kMai, kNichi>>, <<kNichi>>)
          [] rule.freq = sWEEKLY -> labelWeekly(rule, interval)
          [] rule.freq = sMONTHLY -> labelMonthly(rule, interval)
          [] rule.freq = sYEARLY -> labelEvery(interval, <<kMai, kNen>>, <<kNen>>)
          [] OTHER -> rruleToJapanese(rruleString)

\* getRecurrenceLabel returning the input for an unparseable rule, as
\* rruleToJapanese does
getRecurrenceLabelEcho(rruleString) ==
    IF rruleString = <<>> THEN <<>>
    ELSE LET rule == parseRRule(rruleString) IN
         IF rule = Null THEN rruleString
         ELSE labelOfRule(rule, rruleString)

getRecurrenceLabel(rruleString) ==
    IF rruleString = <<>> THEN <<>>
    ELSE LET rule == parseRRule(rruleString) IN
         IF rule = Null THEN <<>>
         ELSE labelOfRule(rule, rruleString)

-----------------------------------------------------------------------------
(* Characters and bytes *)

\* the printable ASCII characters, code 32 first (the grave accent, which a
\* string of this notation cannot hold, is written <grave>)
AsciiChars ==
    <<" ","!","\"","#","$","%","&","'","(",")","*","+",",","-",".","/",
      "0","1","2","3","4","5","6","7","8","9",":",";","<","=",">","?",
      "@","A","B","C","D","E","F","G","H","I","J","K","L","M","N","O",
      "P","Q","R","S","T","U","V","W","X","Y","Z","[","\\","]","^","_",
      "<grave>","a","b","c","d","e","f","g","h","i","j","k","l","m","n","o",
      "p","q","r","s","t","u","v","w","x","y","z","{","|","}","~">>

\* String.fromCharCode(cp): the character of a code point; a code point outside
\* ASCII is one character of the model, written <U+n>
fromCharCode(cp) ==
    IF cp \in 32..126 THEN AsciiChars[cp - 31]
    ELSE IF cp = 10 THEN "\n"
    ELSE IF cp = 13 THEN "\r"
    ELSE IF cp = 9 THEN "\t"
    ELSE "<U+" \o ToString(cp) \o ">"

\* the base64 alphabet, value 0 first
Base64Chars ==
    <<"A","B","C","D","E","F","G","H","I","J","K","L","M","N","O","P",
      "Q","R","S","T","U","V","W","X","Y","Z","a","b","c","d","e","f",
      "g","h","i","j","k","l","m","n","o","p","q","r","s","t","u","v",
      "w","x","y","z","0","1","2","3","4","5","6","7","8","9","+","/">>

Base64Value == [c \in {Base64Chars[i] : i \in 1..64} |-> IndexIn(c, Base64Chars) - 1]

\* data.replace(/-/g, '+').replace(/_/g, '/') : Base64Url -> Base64
base64UrlToBase64(data) == replaceChar(replaceChar(data, "-", <<"+">>), "_", <<"/">>)

\* the padding removed by atob: one or two trailing '=' of an input whose
\* length is a multiple of 4
stripPadding(s) ==
    IF Len(s) % 4 = 0 /\ Len(s) > 0 /\ s[Len(s)] = "="
    THEN IF s[Len(s) - 1] = "=" THEN SubSeq(s, 1, Len(s) - 2) ELSE SubSeq(s, 1, Len(s) - 1)
    ELSE s

\* the bytes of a string of base64 characters (no padding, length not 1 mod 4)
RECURSIVE base64Bytes(_)
base64Bytes(s) ==
    IF Len(s) < 2 THEN <<>>
    ELSE LET v1 == Base64Value[s[1]]
             v2 == Base64Value[s[2]]
             b1 == v1 * 4 + (v2 \div 16)
         IN  IF Len(s) = 2 THEN <<b1>>
             ELSE LET v3 == Base64Value[s[3]]
                      b2 == (v2 % 16) * 16 + (v3 \div 4)
                  IN  IF Len(s) = 3 THEN <<b1, b2>>
                      ELSE LET v4 == Base64Value[s[4]]
                               b3 == (v3 % 4) * 64 + v4
                           IN  <<b1, b2, b3>> \o base64Bytes(SubSeq(s, 5, Len(s)))

\* window.atob(s): the bytes, or a thrown InvalidCharacterError
atob(s) ==
    LET t == stripPadding(s) IN
    IF Len(t) % 4 = 1 \/ \E i \in 1..Len(t) : t[i] \notin DOMAIN Base64Value
    THEN [threw |-> TRUE, value |-> <<>>]
    ELSE [threw |-> FALSE, value |-> base64Bytes(t)]

IsContinuation(b) == b \in 128..191

\* decodeURIComponent(escape(binary)): the bytes read as UTF-8, or a thrown
\* URIError when they are not well-formed UTF-8
RECURSIVE utf8Decode(_)
utf8Decode(bytes) ==
    IF bytes = <<>> THEN [threw |-> FALSE, value |-> <<>>]
    ELSE LET b == bytes[1]
             n == IF b < 128 THEN 1
                  ELSE IF b \in 194..223 THEN 2
                  ELSE IF b \in 224..239 THEN 3
                  ELSE IF b \in 240..244 THEN 4
                  ELSE 0
             wellFormed ==
                 /\ n > 0
                 /\ Len(bytes) >= n
                 /\ \A i \in 2..n : IsContinuation(bytes[i])
                 /\ (b = 224) => bytes[2] >= 160
                 /\ (b = 237) => bytes[2] <= 159
                 /\ (b = 240) => bytes[2] >= 144
                 /\ (b = 244) => bytes[2] <= 143
             cp == CASE n = 1 -> b
                     [] n = 2 -> (b % 32) * 64 + (bytes[2] % 64)
                     [] n = 3 -> (b % 16) * 4096 + (bytes[2] % 64) * 64 + (bytes[3] % 64)
                     [] n = 4 -> (b % 8) * 262144 + (bytes[2] % 64) * 4096
                                   + (bytes[3] % 64) * 64 + (bytes[4] % 64)
         IN  IF ~wellFormed THEN [threw |-> TRUE, value |-> <<>>]
             ELSE LET rest == utf8Decode(SubSeq(bytes, n + 1, Len(bytes)))
                  IN  IF rest.threw THEN rest
                      ELSE [threw |-> FALSE, value |-> <<fromCharCode(cp)>> \o rest.value]

\* lines 148-150: the body of the try block of decodeBase64
decodeBase64Try(data) ==
    LET binary == atob(base64UrlToBase64(data))
    IN  IF binary.threw THEN binary ELSE utf8Decode(binary.value)

\* decodeBase64 without its try/catch: a decoding error propagates
decodeBase64NoCatch(data) ==
    IF data = <<>> THEN [threw |-> FALSE, value |-> <<>>]
    ELSE decodeBase64Try(data)

\* decodeBase64: the outcome of the call, which catches every decoding error
decodeBase64(data) ==
    IF data = <<>> THEN [threw |-> FALSE, value |-> <<>>]
    ELSE LET r == decodeBase64Try(data)
         IN  IF r.threw THEN [threw |-> FALSE, value |-> <<>>] ELSE r

-----------------------------------------------------------------------------
(* convertTextToHtml *)

sAmp == <<"&","a","m","p",";">>
sLt == <<"&","l","t",";">>
sGt == <<"&","g","t",";">>
sQuot == <<"&","q","u","o","t",";">>
sApos == <<"&","#","3","9",";">>
sBr == <<"<","b","r",">">>
sHttp == <<"h","t","t","p",":","/","/">>
sHttps == <<"h","t","t","p","s",":","/","/">>

\* the escaping without its replacement of '<'
escapeHtmlKeepingLt(text) ==
    replaceChar(replaceChar(replaceChar(replaceChar(
        text, "&", sAmp), ">", sGt), "\"", sQuot), "'", sApos)

\* lines 161-166: the five replacements, ampersand first
escapeHtml(text) ==
    replaceChar(replaceChar(replaceChar(replaceChar(replaceChar(
        text, "&", sAmp), "<", sLt), ">", sGt), "\"", sQuot), "'", sApos)

\* a character of the class [^\s<>"']
IsUrlChar(c) == c \notin {" ", "\n", "\r", "\t", "<", ">", "\"", "'"}

\* length of the longest prefix of s made of URL characters
RECURSIVE urlRun(_)
urlRun(s) == IF s # <<>> /\ IsUrlChar(Head(s)) THEN 1 + urlRun(Tail(s)) ELSE 0

\* '<a href="$1">$1</a>'
anchor(url) ==
    <<"<","a"," ","h","r","e","f","=","\"">> \o url \o <<"\"",">">> \o url \o <<"<","/","a",">">>

\* escaped.replace(/(https?:\/\/[^\s<>"']+)/g, '<a href="$1">$1</a>')
RECURSIVE linkify(_)
linkify(s) ==
    IF s = <<>> THEN <<>>
    ELSE LET scheme == IF startsWith(s, sHttps) THEN Len(sHttps)
                       ELSE IF startsWith(s, sHttp) THEN Len(sHttp)
                       ELSE 0
             n == urlRun(SubSeq(s, scheme + 1, Len(s)))
         IN  IF scheme > 0 /\ n > 0
             THEN anchor(SubSeq(s, 1, scheme + n)) \o linkify(SubSeq(s, scheme + n + 1, Len(s)))
             ELSE <<Head(s)>> \o linkify(Tail(s))

\* s.replace(/\r\n/g, '<br>')
RECURSIVE replaceCRLF(_)
replaceCRLF(s) ==
    IF s = <<>> THEN <<>>
    ELSE IF Len(s) >= 2 /\ s[1] = "\r" /\ s[2] = "\n"
    THEN sBr \o replaceCRLF(SubSeq(s, 3, Len(s)))
    ELSE <<Head(s)>> \o replaceCRLF(Tail(s))

\* the conversion with the two single-character replacements made before
\* the replacement of the pair
convertTextToHtmlSinglesFirst(text) ==
    LET escaped == escapeHtml(text)
        withLinks == linkify(escaped)
    IN  replaceCRLF(replaceChar(replaceChar(withLinks, "\r", sBr), "\n", sBr))

convertTextToHtml(text) ==
    LET escaped == escapeHtml(text)
        withLinks == linkify(escaped)
    IN  replaceChar(replaceChar(replaceCRLF(withLinks), "\r", sBr), "\n", sBr)

-----------------------------------------------------------------------------
(* extractBody *)

sTextHtml == <<"t","e","x","t","/","h","t","m","l">>
sTextPlain == <<"t","e","x","t","/","p","l","a","i","n">>

\* part.body?.data, the empty string standing for undefined
bodyData(part) ==
    IF Has(part, "body") /\ Has(part.body, "data") THEN part.body.data ELSE <<>>

\* findBodyParts without the "if (!htmlBody)" and "if (!textBody)" guards: the
\* last candidate wins
visitBodyPartLastWins(part, acc) ==
    IF part.mimeType = sTextHtml /\ TruthyStr(bodyData(part))
    THEN [acc EXCEPT !.htmlBody = bodyData(part)]
    ELSE IF part.mimeType = sTextPlain /\ TruthyStr(bodyData(part))
    THEN [acc EXCEPT !.textBody = bodyData(part)]
    ELSE acc

\* lines 192-199: one part seen by findBodyParts; a candidate is null (here the
\* empty string) until it is set
visitBodyPart(part, acc) ==
    IF part.mimeType = sTextHtml /\ TruthyStr(bodyData(part))
    THEN IF ~TruthyStr(acc.htmlBody) THEN [acc EXCEPT !.htmlBody = bodyData(part)] ELSE acc
    ELSE IF part.mimeType = sTextPlain /\ TruthyStr(bodyData(part))
    THEN IF ~TruthyStr(acc.textBody) THEN [acc EXCEPT !.textBody = bodyData(part)] ELSE acc
    ELSE acc

\* lines 188-206
RECURSIVE findBodyParts(_, _)
findBodyParts(parts, acc) ==
    IF parts = <<>> THEN acc
    ELSE LET part == Head(parts)
             seen == visitBodyPart(part, acc)
             below == IF Has(part, "parts") THEN findBodyParts(part.parts, seen) ELSE seen
         IN  findBodyParts(Tail(parts), below)

\* lines 209-215: the root itself
rootBody(payload) ==
    IF TruthyStr(bodyData(payload))
    THEN IF payload.mimeType = sTextHtml
         THEN [htmlBody |-> bodyData(payload), textBody |-> <<>>]
         ELSE IF payload.mimeType = sTextPlain
         THEN [htmlBody |-> <<>>, textBody |-> bodyData(payload)]
         ELSE [htmlBody |-> <<>>, textBody |-> <<>>]
    ELSE [htmlBody |-> <<>>, textBody |-> <<>>]

\* lines 184-220: the candidates found in the payload
bodyCandidates(payload) ==
    IF Has(payload, "parts") THEN findBodyParts(payload.parts, rootBody(payload))
    ELSE rootBody(payload)

\* lines 223-232 with the plain text tested first
selectBodyPlainFirst(found) ==
    IF TruthyStr(found.textBody)
    THEN LET decodedText == decodeBase64(found.textBody)
         IN  IF decodedText.threw THEN decodedText
             ELSE [threw |-> FALSE, value |-> convertTextToHtml(decodedText.value)]
    ELSE IF TruthyStr(found.htmlBody) THEN decodeBase64(found.htmlBody)
    ELSE [threw |-> FALSE, value |-> <<>>]

\* lines 223-232: HTML first, then the promoted plain text, then ''
selectBody(found) ==
    IF TruthyStr(found.htmlBody) THEN decodeBase64(found.htmlBody)
    ELSE IF TruthyStr(found.textBody)
    THEN LET decodedText == decodeBase64(found.textBody)
         IN  IF decodedText.threw THEN decodedText
             ELSE [threw |-> FALSE, value |-> convertTextToHtml(decodedText.value)]
    ELSE [threw |-> FALSE, value |-> <<>>]

\* the outcome of extractBody(payload): [threw, value]
extractBody(payload) == selectBody(bodyCandidates(payload))

-----------------------------------------------------------------------------
(* replaceCidWithDataUri *)

sSrcAttr == <<"s","r","c","=">>
sCidScheme == <<"c","i","d",":">>
sDataScheme == <<"d","a","t","a",":">>
sBase64Marker == <<";","b","a","s","e","6","4",",">>
QuoteChars == {"\"", "'"}
HexDigits == <<"0","1","2","3","4","5","6","7","8","9","A","B","C","D","E","F">>

\* the characters of the class [.*+?^${}()|[\]\\]
RegExpSpecials == {".","*","+","?","^","$","{","}","(",")","|","[","]","\\"}

\* an identifier handed to the pattern as it is
escapeRegExpNone(str) == str

\* str.replace(/[.*+?^${}()|[\]\\]/g, '\\$&')
RECURSIVE escapeRegExp(_)
escapeRegExp(str) ==
    IF str = <<>> THEN <<>>
    ELSE (IF Head(str) \in RegExpSpecials THEN <<"\\", Head(str)>> ELSE <<Head(str)>>)
         \o escapeRegExp(Tail(str))

\* the characters encodeURIComponent leaves alone
UriUnreserved ==
    {UpperLetters[i] : i \in 1..26} \cup {LowerLetters[i] : i \in 1..26}
        \cup {DigitChars[i] : i \in 1..10} \cup {"-","_",".","!","~","*","'","(",")"}

\* encodeURIComponent of one ASCII character
encodeURIChar(c) ==
    IF c \in UriUnreserved THEN <<c>>
    ELSE LET code == IndexIn(c, AsciiChars) + 31
         IN  <<"%", HexDigits[(code \div 16) + 1], HexDigits[(code % 16) + 1]>>

\* encodeURIComponent(str), for the ASCII strings the identifiers are made of
RECURSIVE encodeURIComponent(_)
encodeURIComponent(str) ==
    IF str = <<>> THEN <<>> ELSE encodeURIChar(Head(str)) \o encodeURIComponent(Tail(str))

\* the atoms of the source of a pattern without quantifiers: an escaped
\* character is that character, a bare dot is any character but a line end
RECURSIVE patternAtoms(_)
patternAtoms(source) ==
    IF source = <<>> THEN <<>>
    ELSE IF Head(source) = "\\" /\ Len(source) >= 2
    THEN <<[kind |-> "char", char |-> source[2]]>> \o patternAtoms(SubSeq(source, 3, Len(source)))
    ELSE IF Head(source) = "."
    THEN <<[kind |-> "any", char |-> "."]>> \o patternAtoms(Tail(source))
    ELSE <<[kind |-> "char", char |-> Head(source)]>> \o patternAtoms(Tail(source))

\* new RegExp(`(src=["'])cid:${id}(["'])`, 'gi'): group 1 is the first five
\* atoms, group 2 the last one
cidPatternAtoms(id) ==
    patternAtoms(sSrcAttr) \o <<[kind |-> "quote", char |-> "\""]>>
        \o patternAtoms(sCidScheme \o id) \o <<[kind |-> "quote", char |-> "\""]>>

\* one atom against one character, under the flag i
atomMatches(atom, c) ==
    CASE atom.kind = "char" -> toLowerCaseChar(atom.char) = toLowerCaseChar(c)
      [] atom.kind = "any" -> c \notin {"\n", "\r"}
      [] atom.kind = "quote" -> c \in QuoteChars

\* the pattern matches the characters of s from position p on
matchesAt(atoms, s, p) ==
    /\ p + Len(atoms) - 1 <= Len(s)
    /\ \A i \in 1..Len(atoms) : atomMatches(atoms[i], s[p + i - 1])

\* the position of the leftmost match that starts at p or later, 0 without one
RECURSIVE nextMatch(_, _, _)
nextMatch(atoms, s, p) ==
    IF p + Len(atoms) - 1 > Len(s) THEN 0
    ELSE IF matchesAt(atoms, s, p) THEN p
    ELSE nextMatch(atoms, s, p + 1)

\* the replacement of every match from position p on, the search resuming
\* after each match: $1 is the first five characters of the match, $2 its last
RECURSIVE replaceFrom(_, _, _, _)
replaceFrom(s, p, atoms, dataUri) ==
    LET at == nextMatch(atoms, s, p)
    IN  IF at = 0 THEN SubSeq(s, p, Len(s))
        ELSE SubSeq(s, p, at + 4) \o dataUri \o <<s[at + Len(atoms) - 1]>>
                 \o replaceFrom(s, at + Len(atoms), atoms, dataUri)

\* the replacement of every match with a double quote written after the URI
RECURSIVE replaceFromDoubleQuoted(_, _, _, _)
replaceFromDoubleQuoted(s, p, atoms, dataUri) ==
    LET at == nextMatch(atoms, s, p)
    IN  IF at = 0 THEN SubSeq(s, p, Len(s))
        ELSE SubSeq(s, p, at + 4) \o dataUri \o <<"\"">>
                 \o replaceFromDoubleQuoted(s, at + Len(atoms), atoms, dataUri)

\* the replacement under the flag g with `$1${dataUri}"`
replacePatternDoubleQuoted(s, atoms, dataUri) == replaceFromDoubleQuoted(s, 1, atoms, dataUri)

\* s.replace(pattern, `$1${dataUri}$2`) under the flag g (dataUri holds no '$')
replacePattern(s, atoms, dataUri) == replaceFrom(s, 1, atoms, dataUri)

\* `data:${image.mimeType};base64,${image.data}`
dataUriOf(image) == sDataScheme \o image.mimeType \o sBase64Marker \o image.data

\* lines 369-382: the two replacements made for one image
replaceCidOfImage(result, image) ==
    LET dataUri == dataUriOf(image)
        cidPattern == cidPatternAtoms(escapeRegExp(image.contentId))
        plain == replacePattern(result, cidPattern, dataUri)
        encodedId == encodeURIComponent(image.contentId)
        cidPatternEncoded == cidPatternAtoms(escapeRegExp(encodedId))
    IN  IF encodedId # image.contentId
        THEN replacePattern(plain, cidPatternEncoded, dataUri)
        ELSE plain

\* lines 368-383: the loop over the images
RECURSIVE replaceCidLoop(_, _)
replaceCidLoop(result, inlineImages) ==
    IF inlineImages = <<>> THEN result
    ELSE replaceCidLoop(replaceCidOfImage(result, Head(inlineImages)), Tail(inlineImages))

replaceCidWithDataUri(body, inlineImages) ==
    IF ~TruthyStr(body) \/ Len(inlineImages) = 0 THEN body
    ELSE replaceCidLoop(body, inlineImages)

-----------------------------------------------------------------------------
(* extractAttachments, extractInlineImageParts, formatEmailMessage *)

sImagePrefix == <<"i","m","a","g","e","/">>
sContentId == <<"c","o","n","t","e","n","t","-","i","d">>
sSubject == <<"S","u","b","j","e","c","t">>
sFrom == <<"F","r","o","m">>
sTo == <<"T","o">>
sHeaderDate == <<"D","a","t","e">>
sNoSubject == <<"(","N","o"," ","S","u","b","j","e","c","t",")">>
sUnknownSender == <<"(","U","n","k","n","o","w","n"," ","S","e","n","d","e","r",")">>
sUnknownRecipient == <<"(","U","n","k","n","o","w","n"," ","R","e","c","i","p","i","e","n","t",")">>

\* part.body?.attachmentId, the empty string standing for undefined
bodyAttachmentId(part) ==
    IF Has(part, "body") /\ Has(part.body, "attachmentId") THEN part.body.attachmentId ELSE <<>>

\* lines 244-251: the attachment a part stands for, if any
attachmentOf(part) ==
    IF TruthyStr(bodyAttachmentId(part)) /\ Has(part, "filename") /\ TruthyStr(part.filename)
    THEN <<[attachmentId |-> part.body.attachmentId,
            filename |-> part.filename,
            mimeType |-> part.mimeType,
            size |-> IF Has(part.body, "size") /\ TruthyNum(part.body.size) THEN part.body.size ELSE 0]>>
    ELSE <<>>

\* lines 239-257
RECURSIVE findAttachments(_)
findAttachments(parts) ==
    IF parts = <<>> THEN <<>>
    ELSE attachmentOf(Head(parts))
         \o (IF Has(Head(parts), "parts") THEN findAttachments(Head(parts).parts) ELSE <<>>)
         \o findAttachments(Tail(parts))

\* only the parts below the root are examined
extractAttachments(payload) ==
    IF Has(payload, "parts") THEN findAttachments(payload.parts) ELSE <<>>

\* headers.find(h => h.name.toLowerCase() === 'content-id'), Null when absent
RECURSIVE findContentIdHeader(_)
findContentIdHeader(headers) ==
    IF headers = <<>> THEN Null
    ELSE IF toLowerCase(Head(headers).name) = sContentId THEN Head(headers)
    ELSE findContentIdHeader(Tail(headers))

\* lines 285-288: the identifier without its angle brackets
stripAngleBrackets(contentId) ==
    IF startsWith(contentId, <<"<">>) /\ endsWith(contentId, <<">">>)
    THEN SubSeq(contentId, 2, Len(contentId) - 1)
    ELSE contentId

\* the candidate of a part given every source the part has, data and
\* attachmentId together when it has both
inlineImagePartOfEverySource(part) ==
    IF Has(part, "mimeType") /\ startsWith(part.mimeType, sImagePrefix) /\ Has(part, "headers")
    THEN LET contentIdHeader == findContentIdHeader(part.headers)
         IN  IF contentIdHeader = Null THEN <<>>
             ELSE LET contentId == stripAngleBrackets(contentIdHeader.value)
                  IN  IF TruthyStr(bodyData(part)) /\ TruthyStr(bodyAttachmentId(part))
                      THEN <<[contentId |-> contentId, mimeType |-> part.mimeType,
                              data |-> base64UrlToBase64(part.body.data),
                              attachmentId |-> part.body.attachmentId]>>
                      ELSE IF TruthyStr(bodyData(part))
                      THEN <<[contentId |-> contentId, mimeType |-> part.mimeType,
                              data |-> base64UrlToBase64(part.body.data)]>>
                      ELSE IF TruthyStr(bodyAttachmentId(part))
                      THEN <<[contentId |-> contentId, mimeType |-> part.mimeType,
                              attachmentId |-> part.body.attachmentId]>>
                      ELSE <<>>
    ELSE <<>>

\* lines 281-307: the inline image a part stands for, if any
inlineImagePartOf(part) ==
    IF Has(part, "mimeType") /\ startsWith(part.mimeType, sImagePrefix) /\ Has(part, "headers")
    THEN LET contentIdHeader == findContentIdHeader(part.headers)
         IN  IF contentIdHeader = Null THEN <<>>
             ELSE LET contentId == stripAngleBrackets(contentIdHeader.value)
                  IN  IF TruthyStr(bodyData(part))
                      THEN <<[contentId |-> contentId, mimeType |-> part.mimeType,
                              data |-> base64UrlToBase64(part.body.data)]>>
                      ELSE IF TruthyStr(bodyAttachmentId(part))
                      THEN <<[contentId |-> contentId, mimeType |-> part.mimeType,
                              attachmentId |-> part.body.attachmentId]>>
                      ELSE <<>>
    ELSE <<>>

\* lines 276-313
RECURSIVE findInlineImages(_)
findInlineImages(parts) ==
    IF parts = <<>> THEN <<>>
    ELSE inlineImagePartOf(Head(parts))
         \o (IF Has(Head(parts), "parts") THEN findInlineImages(Head(parts).parts) ELSE <<>>)
         \o findInlineImages(Tail(parts))

\* only the parts below the root are examined
extractInlineImageParts(payload) ==
    IF Has(payload, "parts") THEN findInlineImages(payload.parts) ELSE <<>>

\* headers.find(h => h.name === name)?.value || ""
RECURSIVE getHeader(_, _)
getHeader(headers, name) ==
    IF headers = <<>> THEN <<>>
    ELSE IF Head(headers).name = name THEN Head(headers).value
    ELSE getHeader(Tail(headers), name)

\* line 402 without its third test
isIncompleteHeadersUntested(email) == email = Null \/ ~Has(email, "payload")

\* line 402: !email || !email.payload || !email.payload.headers
isIncomplete(email) ==
    email = Null \/ ~Has(email, "payload") \/ ~Has(email.payload, "headers")

\* lines 407-433: the record of a raw message that has a payload; an
\* exception of extractBody leaves formatEmailMessage, and so does the
\* TypeError of headers.find when the payload has no header list
formatComplete(email) ==
    LET headers == email.payload.headers
        body == extractBody(email.payload)
    IN  IF body.threw \/ ~Has(email.payload, "headers") THEN [threw |-> TRUE, value |-> Null]
        ELSE [threw |-> FALSE,
              value |->
                [email |->
                   [id |-> email.id,
                    threadId |-> email.threadId,
                    snippet |-> email.snippet,
                    body |-> body.value,
                    labelIds |-> IF Has(email, "labelIds") THEN email.labelIds ELSE <<>>,
                    attachments |-> extractAttachments(email.payload),
                    inlineImages |-> <<>>,
                    headers |->
                      [subject |-> OrStr(getHeader(headers, sSubject), sNoSubject),
                       from |-> OrStr(getHeader(headers, sFrom), sUnknownSender),
                       to |-> OrStr(getHeader(headers, sTo), sUnknownRecipient),
                       date |-> getHeader(headers, sHeaderDate)]],
                 inlineImageParts |-> extractInlineImageParts(email.payload)]]

\* formatEmailMessage: the outcome [threw, value], the value Null for a raw
\* message without payload or without payload headers
formatEmailMessage(email) ==
    IF isIncomplete(email) THEN [threw |-> FALSE, value |-> Null]
    ELSE formatComplete(email)

\* .filter(result => result !== null)
dropNull(results) == SelectSeq(results, LAMBDA r : r # Null)

-----------------------------------------------------------------------------
(* fetchInlineImageData, processInlineImages *)

\* lines 453-462: the message completed with its resolved images
completeEmail(email, inlineImages) ==
    [email EXCEPT
        !.body = IF Len(inlineImages) > 0 THEN replaceCidWithDataUri(email.body, inlineImages)
                 ELSE email.body,
        !.inlineImages = inlineImages]

\* lines 328-357, then 453-462: the loop of fetchInlineImageData from the part
\* number task.next on, up to the next fetch, or to the end of the list and
\* the completion of the message
RECURSIVE runFetchLoop(_)
runFetchLoop(task) ==
    IF task.next > Len(task.parts)
    THEN [task EXCEPT !.state = "fulfilled", !.email = completeEmail(task.email, task.images)]
    ELSE LET part == task.parts[task.next]
         IN  IF Has(part, "data") /\ TruthyStr(part.data)
             THEN runFetchLoop([task EXCEPT
                      !.images = Append(@, [contentId |-> part.contentId,
                                            mimeType |-> part.mimeType,
                                            data |-> part.data]),
                      !.next = @ + 1])
             ELSE IF Has(part, "attachmentId") /\ TruthyStr(part.attachmentId)
             THEN [task EXCEPT !.state = "awaiting"]
             ELSE runFetchLoop([task EXCEPT !.next = @ + 1])

\* processInlineImages, up to its first fetch: the task of one message
processInlineImages(formatted) ==
    LET task == [email |-> formatted.email, parts |-> formatted.inlineImageParts,
                 next |-> 1, images |-> <<>>, replies |-> <<>>, state |-> "running"]
    IN  IF Len(formatted.inlineImageParts) = 0 THEN [task EXCEPT !.state = "fulfilled"]
        ELSE runFetchLoop(task)

\* an OK response whose image is put in front of the images collected so far
onFetchOkInFront(task, data) ==
    LET part == task.parts[task.next]
    IN  runFetchLoop([task EXCEPT
            !.images = <<[contentId |-> part.contentId,
                          mimeType |-> part.mimeType,
                          data |-> base64UrlToBase64(data)]>> \o @,
            !.replies = Append(@, "ok"),
            !.next = @ + 1])

\* lines 344-352: an OK response whose JSON carries the data
onFetchOk(task, data) ==
    LET part == task.parts[task.next]
    IN  runFetchLoop([task EXCEPT
            !.images = Append(@, [contentId |-> part.contentId,
                                  mimeType |-> part.mimeType,
                                  data |-> base64UrlToBase64(data)]),
            !.replies = Append(@, "ok"),
            !.next = @ + 1])

\* line 344: a response that is not OK adds nothing
onFetchNotOk(task) ==
    runFetchLoop([task EXCEPT !.replies = Append(@, "notOk"), !.next = @ + 1])

\* a fetch error that nothing catches rejects the task
onFetchErrorUncaught(task) ==
    [task EXCEPT !.replies = Append(@, "threw"), !.state = "rejected"]

\* lines 353-355: an error thrown by fetch or by res.json() is caught and logged
onFetchError(task) ==
    runFetchLoop([task EXCEPT !.replies = Append(@, "threw"), !.next = @ + 1])

-----------------------------------------------------------------------------
(* Inputs of the recurrence engine *)

s20251231 == <<"2","0","2","5","1","2","3","1">>
sTime == <<"T","2","3","5","9","5","9","Z">>
sDate == <<"2","0","2","5","-","1","2","-","3","1">>

\* the values an optional field of an input RecurrenceRule takes
RuleFieldValues(k) ==
    CASE k = "interval" -> 1..MaxInterval
      [] k = "count" -> {1, 3}
      [] k = "until" -> {s20251231, s20251231 \o sTime}
      [] k = "byDay" -> {<<>>, <<sMO, sWE, sFR>>, <<<<"2">> \o sTU>>, <<<<"-","1">> \o sFR>>}
      [] k = "byMonthDay" -> {<<>>, <<15>>, <<-1>>, <<1, 15>>}
      [] k = "byMonth" -> {<<>>, <<1, 6>>}
      [] k = "bySetPos" -> {<<-1>>, <<1, 2>>}
      [] k = "wkst" -> {sSU}

OptionalRuleFields ==
    {"interval", "count", "until", "byDay", "byMonthDay", "byMonth", "bySetPos", "wkst"}

\* the rules that set exactly the optional fields S
RECURSIVE RulesOver(_)
RulesOver(S) ==
    IF S = {} THEN {[freq |-> f] : f \in Frequencies}
    ELSE LET k == CHOOSE x \in S : TRUE
         IN  {SetField(r, k, v) : r \in RulesOver(S \ {k}), v \in RuleFieldValues(k)}

RuleInputs(maxSetFields) ==
    UNION {RulesOver(S) : S \in {T \in SUBSET OptionalRuleFields : Cardinality(T) <= maxSetFields}}

\* the clause fragments input rule strings are made of
Fragments ==
    { clause(sFREQ, sDAILY),
      clause(toLowerCase(sFREQ), toLowerCase(sWEEKLY)),
      clause(sFREQ, sMONTHLY),
      clause(sFREQ, <<"H","O","U","R","L","Y">>),
      sFREQ,
      clause(sFREQ, <<>>),
      clause(sINTERVAL, <<"2">>),
      clause(sINTERVAL, <<"1">>),
      clause(sINTERVAL, <<"0">>),
      clause(sCOUNT, <<"3">>),
      clause(sCOUNT, <<"0">>),
      clause(sCOUNT, <<"x">>),
      clause(sUNTIL, s20251231),
      clause(sBYDAY, join(<<sMO, sWE, sFR>>, <<",">>)),
      clause(sBYDAY, <<"-","1">> \o sFR),
      clause(sBYMONTHDAY, <<"-","1">>),
      clause(sBYMONTHDAY, <<"1","5">>),
      clause(sBYMONTH, <<"1",",","6">>),
      clause(sBYSETPOS, <<"-","1">>),
      clause(sWKST, sSU),
      clause(<<"X","-","F","O","O">>, <<"1">>),
      clause(sINTERVAL, <<"2">>) \o <<";">> \o clause(sBYDAY, join(<<sMO, sWE, sFR>>, <<",">>)),
      clause(sCOUNT, <<"3">>) \o <<";">> \o clause(sUNTIL, s20251231),
      clause(sFREQ, sYEARLY),
      clause(sBYMONTHDAY, <<"1","5">>) \o <<";">>
          \o clause(sBYDAY, join(<<<<"2">> \o sTU, sSA>>, <<",">>))
    }

\* the optional prefix of an input rule string
Prefixes == {<<>>, sRRULE, toLowerCase(sRRULE), <<"R","r","u","L","e",":">>}

RECURSIVE FragmentLists(_)
FragmentLists(n) ==
    IF n = 0 THEN {<<>>}
    ELSE FragmentLists(n - 1)
           \cup {<<f>> \o l : f \in Fragments, l \in {x \in FragmentLists(n - 1) : Len(x) = n - 1}}

StringInputs(maxFragments) ==
    {p \o join(l, <<";">>) : p \in Prefixes, l \in FragmentLists(maxFragments)}

UIInputs(maxInterval) ==
    [ enabled : BOOLEAN,
      freq : Frequencies,
      interval : 1..maxInterval,
      weeklyDays : {<<>>, <<sMO, sWE>>},
      monthlyType : {"dayOfMonth", "dayOfWeek"},
      monthlyDayOfMonth : {1, 15},
      monthlyWeekOrdinal : {2, -1},
      monthlyWeekDay : {sMO, sFR},
      endType : {"never", "count", "until"},
      endCount : {10, 3, 0},
      endUntil : {<<>>, sDate} ]

-----------------------------------------------------------------------------
(* Callers of the recurrence engine *)

vars == <<rrVars, exVars, cidVars, mbVars, txVars>>

\* the variables the recurrence engine's callers leave alone
nonRrVars == <<exVars, cidVars, mbVars, txVars>>

\* the variables the payload walker's callers leave alone
nonExVars == <<rrVars, cidVars, mbVars, txVars>>

\* the variables the caller of replaceCidWithDataUri leaves alone
nonCidVars == <<rrVars, exVars, mbVars, txVars>>

\* the variables fetchThread leaves alone
nonMbVars == <<rrVars, exVars, cidVars, txVars>>

\* the variables the caller of convertTextToHtml leaves alone
nonTxVars == <<rrVars, exVars, cidVars, mbVars>>

TxIdle ==
    /\ txPc = "idle"
    /\ txText = <<>>
    /\ txHtml = <<>>

MbIdle ==
    /\ mbPc = "idle"
    /\ mbRaw = <<>>
    /\ mbTasks = <<>>
    /\ mbEmails = <<>>

CidIdle ==
    /\ cidPc = "idle"
    /\ cidSegments = <<>>
    /\ cidBody = <<>>
    /\ cidImages = <<>>
    /\ cidResult = <<>>

ExIdle ==
    /\ exPc = "idle"
    /\ exPayload = EmptyObject
    /\ exBody = [threw |-> FALSE, value |-> <<>>]
    /\ exFound = [htmlBody |-> <<>>, textBody |-> <<>>]
    /\ exAttachments = <<>>
    /\ exImages = <<>>

RRIdle ==
    /\ rrText = <<>>
    /\ rrRule = Null
    /\ rrFirst = Null
    /\ rrUi = getDefaultRecurrenceUIState
    /\ rrLabel = <<>>
    /\ rrDesc = <<>>

\* a caller holding a rule string
InitStr ==
    /\ rrPc = "string"
    /\ rrIn \in StringInputs(MaxFragments)
    /\ RRIdle
    /\ ExIdle
    /\ CidIdle
    /\ MbIdle
    /\ TxIdle

\* a caller holding a structured rule
InitRule ==
    /\ rrPc = "rule"
    /\ rrIn \in RuleInputs(MaxSetFields)
    /\ rrText = <<>>
    /\ rrRule = rrIn
    /\ rrFirst = rrIn
    /\ rrUi = getDefaultRecurrenceUIState
    /\ rrLabel = <<>>
    /\ rrDesc = <<>>
    /\ ExIdle
    /\ CidIdle
    /\ MbIdle
    /\ TxIdle

\* a caller holding a UI state (the RecurrenceEditor)
InitUI ==
    /\ rrPc = "ui"
    /\ rrIn \in UIInputs(MaxInterval)
    /\ rrText = <<>>
    /\ rrRule = Null
    /\ rrFirst = Null
    /\ rrUi = rrIn
    /\ rrLabel = <<>>
    /\ rrDesc = <<>>
    /\ ExIdle
    /\ CidIdle
    /\ MbIdle
    /\ TxIdle

\* rule = parseRRule(input)
Parse ==
    /\ rrPc = "string"
    /\ rrRule' = parseRRule(rrIn)
    /\ rrFirst' = rrRule'
    /\ rrPc' = "parsed"
    /\ UNCHANGED <<rrIn, rrText, rrUi, rrLabel, rrDesc>>
    /\ UNCHANGED nonRrVars

\* text = buildRRule(rule)
Build ==
    /\ rrPc \in {"parsed", "rule"}
    /\ rrRule # Null
    /\ rrText' = buildRRule(rrRule)
    /\ rrPc' = "built"
    /\ UNCHANGED <<rrIn, rrRule, rrFirst, rrUi, rrLabel, rrDesc>>
    /\ UNCHANGED nonRrVars

\* rule = parseRRule(text)
Reparse ==
    /\ rrPc = "built"
    /\ rrRule' = parseRRule(rrText)
    /\ rrPc' = "reparsed"
    /\ UNCHANGED <<rrIn, rrText, rrFirst, rrUi, rrLabel, rrDesc>>
    /\ UNCHANGED nonRrVars

\* state = rruleToUIState(input)
ToUIState ==
    /\ rrPc = "string"
    /\ rrUi' = rruleToUIState(rrIn)
    /\ rrPc' = "ui"
    /\ UNCHANGED <<rrIn, rrText, rrRule, rrFirst, rrLabel, rrDesc>>
    /\ UNCHANGED nonRrVars

\* text = uiStateToRRule(state)
SaveUIState ==
    /\ rrPc = "ui"
    /\ rrText' = uiStateToRRule(rrUi)
    /\ rrPc' = "saved"
    /\ UNCHANGED <<rrIn, rrRule, rrFirst, rrUi, rrLabel, rrDesc>>
    /\ UNCHANGED nonRrVars

\* state = rruleToUIState(text)
ReloadUIState ==
    /\ rrPc = "saved"
    /\ rrUi' = rruleToUIState(rrText)
    /\ rrPc' = "reloaded"
    /\ UNCHANGED <<rrIn, rrText, rrRule, rrFirst, rrLabel, rrDesc>>
    /\ UNCHANGED nonRrVars

\* label = getRecurrenceLabel(input)
Label ==
    /\ rrPc = "string"
    /\ rrLabel' = getRecurrenceLabel(rrIn)
    /\ rrPc' = "labelled"
    /\ UNCHANGED <<rrIn, rrText, rrRule, rrFirst, rrUi, rrDesc>>
    /\ UNCHANGED nonRrVars

\* description = rruleToJapanese(input)
Describe ==
    /\ rrPc = "string"
    /\ rrDesc' = rruleToJapanese(rrIn)
    /\ rrPc' = "described"
    /\ UNCHANGED <<rrIn, rrText, rrRule, rrFirst, rrUi, rrLabel>>
    /\ UNCHANGED nonRrVars

NextStr == Parse \/ Build \/ Reparse \/ ToUIState \/ SaveUIState \/ ReloadUIState
             \/ Label \/ Describe

NextRule == Build \/ Reparse

NextUI == SaveUIState \/ ReloadUIState

SpecStr == InitStr /\ [][NextStr]_vars

SpecRule == InitRule /\ [][NextRule]_vars

SpecUI == InitUI /\ [][NextUI]_vars

-----------------------------------------------------------------------------
(* Inputs of the payload walker *)

\* base64url of "<p>Hi</p>"
dataHtml == <<"P","H","A","-","S","G","k","8","L","3","A","-">>
\* base64url of the byte FF, which is not UTF-8
dataHtmlBad == <<"_","w","=","=">>
\* base64url of "<<?>>"
dataPlain == <<"P","D","w","_","P","j","4","=">>
\* five base64 characters: no base64 string has this length
dataPlainBad == <<"Y","T","x","i","J">>

sMultipart == <<"m","u","l","t","i","p","a","r","t","/","m","i","x","e","d">>

\* a part without children
leafPart(mimeType, body) == [mimeType |-> mimeType, filename |-> <<>>, body |-> body]

\* what a part of an input payload is, its children aside
PartKinds ==
    { leafPart(sTextHtml, [size |-> 9, data |-> dataHtml]),
      leafPart(sTextHtml, [size |-> 1, data |-> dataHtmlBad]),
      leafPart(sTextPlain, [size |-> 5, data |-> dataPlain]),
      leafPart(sTextPlain, [size |-> 3, data |-> dataPlainBad]),
      leafPart(sTextHtml, [size |-> 0, data |-> <<>>]),
      leafPart(sMultipart, [size |-> 0]) }

\* what the root of an input payload is, its children aside
RootKinds ==
    { leafPart(sTextHtml, [size |-> 9, data |-> dataHtml]),
      leafPart(sTextPlain, [size |-> 5, data |-> dataPlain]),
      leafPart(sMultipart, [size |-> 0]) }

\* a part of some kind with the given children (no parts field when childless)
withParts(kind, children) ==
    IF children = <<>> THEN kind
    ELSE [mimeType |-> kind.mimeType, filename |-> kind.filename, body |-> kind.body,
          parts |-> children]

\* a root of some kind, with its header list and the given parts
rootWithParts(kind, children) ==
    IF children = <<>>
    THEN [mimeType |-> kind.mimeType, filename |-> kind.filename, headers |-> <<>>,
          body |-> kind.body]
    ELSE [mimeType |-> kind.mimeType, filename |-> kind.filename, headers |-> <<>>,
          body |-> kind.body, parts |-> children]

\* the lists of part trees that hold n parts in all
RECURSIVE PartForests(_)
PartForests(n) ==
    IF n = 0 THEN {<<>>}
    ELSE UNION { { <<withParts(kind, children)>> \o siblings :
                     kind \in PartKinds,
                     children \in PartForests(k - 1),
                     siblings \in PartForests(n - k) } : k \in 1..n }

\* payload is a root of some kind over at most maxParts parts
IsPayloadInput(payload, maxParts) ==
    \E n \in 0..maxParts : \E parts \in PartForests(n) : \E root \in RootKinds :
        payload = rootWithParts(root, parts)

-----------------------------------------------------------------------------
(* Callers of the payload walker *)

InitBody ==
    /\ exPc = "payload"
    /\ IsPayloadInput(exPayload, MaxParts)
    /\ exBody = [threw |-> FALSE, value |-> <<>>]
    /\ exFound = [htmlBody |-> <<>>, textBody |-> <<>>]
    /\ exAttachments = <<>>
    /\ exImages = <<>>
    /\ rrPc = "idle"
    /\ rrIn = <<>>
    /\ RRIdle
    /\ CidIdle
    /\ MbIdle
    /\ TxIdle

\* body = extractBody(payload)
ExtractBody ==
    /\ exPc = "payload"
    /\ exFound' = bodyCandidates(exPayload)
    /\ exBody' = extractBody(exPayload)
    /\ exPc' = "body"
    /\ UNCHANGED <<exPayload, exAttachments, exImages>>
    /\ UNCHANGED nonExVars

NextBody == ExtractBody

SpecBody == InitBody /\ [][NextBody]_vars

-----------------------------------------------------------------------------
(* Inputs of replaceCidWithDataUri *)

sImagePng == <<"i","m","a","g","e","/","p","n","g">>

\* the content identifiers of the input images: one with a reserved
\* character, its upper-case variant, and one with a pattern character
ContentIds == { <<"a","@","b">>, <<"A","@","b">>, <<"a",".","b">> }

\* the identifiers as the input bodies write them
WrittenIds ==
    { <<"a","@","b">>, <<"A","@","b">>, <<"a","%","4","0","b">>,
      <<"a",".","b">>, <<"a","x","b">> }

\* the image at position k of an input list carries data of its own
imageDataAt(k) == <<"Q", DigitChars[k + 1], "=", "=">>

\* the lists of identifiers drawn from a set, none taken twice
RECURSIVE Arrangements(_)
Arrangements(ids) ==
    {<<>>} \cup UNION { { <<id>> \o others : others \in Arrangements(ids \ {id}) } : id \in ids }

\* the lists of resolved images: every arrangement of the identifiers, which
\* differ by case alone for two of them
ImageListInputs ==
    { [k \in 1..Len(ids) |-> [contentId |-> ids[k], mimeType |-> sImagePng, data |-> imageDataAt(k)]] :
        ids \in Arrangements(ContentIds) }

\* a piece of an input body: some text, or an image-source reference
BodySegments ==
    { [ref |-> FALSE, text |-> <<"<","i","m","g"," ">>] }
        \cup { [ref |-> TRUE, attr |-> style[1], open |-> style[2], id |-> id, close |-> style[3]] :
                 style \in { <<sSrcAttr, "\"", "\"">>, <<toUpperCase(sSrcAttr), "'", "'">> },
                 id \in WrittenIds }

RECURSIVE SegmentListsOfLen(_)
SegmentListsOfLen(n) ==
    IF n = 0 THEN {<<>>}
    ELSE { Append(segments, seg) : segments \in SegmentListsOfLen(n - 1), seg \in BodySegments }

SegmentListInputs(maxSegments) == UNION { SegmentListsOfLen(n) : n \in 0..maxSegments }

\* the text of a piece of body
segmentText(seg) ==
    IF seg.ref THEN seg.attr \o <<seg.open>> \o sCidScheme \o seg.id \o <<seg.close>>
    ELSE seg.text

RECURSIVE bodyText(_)
bodyText(segments) ==
    IF segments = <<>> THEN <<>> ELSE segmentText(Head(segments)) \o bodyText(Tail(segments))

-----------------------------------------------------------------------------
(* Callers of replaceCidWithDataUri *)

InitCid ==
    /\ cidPc = "body"
    /\ cidSegments \in SegmentListInputs(MaxSegments)
    /\ cidBody = bodyText(cidSegments)
    /\ cidImages \in ImageListInputs
    /\ cidResult = <<>>
    /\ MbIdle
    /\ TxIdle
    /\ rrPc = "idle"
    /\ rrIn = <<>>
    /\ RRIdle
    /\ ExIdle

\* result = replaceCidWithDataUri(body, inlineImages)
ReplaceCid ==
    /\ cidPc = "body"
    /\ cidResult' = replaceCidWithDataUri(cidBody, cidImages)
    /\ cidPc' = "replaced"
    /\ UNCHANGED <<cidSegments, cidBody, cidImages>>
    /\ UNCHANGED nonCidVars

NextCid == ReplaceCid

SpecCid == InitCid /\ [][NextCid]_vars

-----------------------------------------------------------------------------
(* Inputs of the thread fetch *)

\* base64url of <img src="cid:a"><img src="cid:b">
dataHtmlTwoRefs ==
    <<"P","G","l","t","Z","y","B","z","c","m","M","9","I","m","N","p","Z","D","p","h","I","j","4","8",
      "a","W","1","n","I","H","N","y","Y","z","0","i","Y","2","l","k","O","m","I","i","P","g","=","=">>
\* base64url of <img src="cid:a">
dataHtmlOneRef ==
    <<"P","G","l","t","Z","y","B","z","c","m","M","9","I","m","N","p","Z","D","p","h","I","j","4","=">>
\* base64url data of an image: the bytes of ">>>"
dataImage == <<"P","j","4","-">>

sMultipartRelated == <<"m","u","l","t","i","p","a","r","t","/","r","e","l","a","t","e","d">>

\* an image part with a Content-ID header, its data to be fetched
fetchedImagePart(headerName, contentId, attachmentId, filename) ==
    [mimeType |-> sImagePng, filename |-> filename,
     headers |-> <<[name |-> headerName, value |-> contentId]>>,
     body |-> [size |-> 3, attachmentId |-> attachmentId]]

\* an image part with a Content-ID header that carries its data
embeddedImagePart(headerName, contentId) ==
    [mimeType |-> sImagePng, filename |-> <<>>,
     headers |-> <<[name |-> headerName, value |-> contentId]>>,
     body |-> [size |-> 3, data |-> dataImage]]

rawNoPayload ==
    [id |-> <<"m","1">>, threadId |-> <<"t">>, snippet |-> <<>>, labelIds |-> <<>>]

rawNoHeaders ==
    [id |-> <<"m","2">>, threadId |-> <<"t">>, snippet |-> <<>>, labelIds |-> <<>>,
     payload |-> leafPart(sTextHtml, [size |-> 9, data |-> dataHtml])]

rawSimple ==
    [id |-> <<"m","3">>, threadId |-> <<"t">>, snippet |-> <<>>,
     payload |-> [mimeType |-> sTextHtml, filename |-> <<>>,
                  headers |-> <<[name |-> sSubject, value |-> <<"H","i">>]>>,
                  body |-> [size |-> 9, data |-> dataHtml]]]

\* two images to be fetched, referenced as cid:a and cid:b
rawTwoImages ==
    [id |-> <<"m","4">>, threadId |-> <<"t">>, snippet |-> <<>>, labelIds |-> <<>>,
     payload |->
        [mimeType |-> sMultipartRelated, filename |-> <<>>, headers |-> <<>>, body |-> [size |-> 0],
         parts |-> << leafPart(sTextHtml, [size |-> 34, data |-> dataHtmlTwoRefs]),
                      fetchedImagePart(<<"C","o","n","t","e","n","t","-","I","D">>, <<"<","a",">">>,
                                       <<"a","t","t","-","a">>, <<"a",".","p","n","g">>),
                      fetchedImagePart(sContentId, <<"b">>, <<"a","t","t","-","b">>, <<>>) >>]]

\* an image A that carries its data and an image a to be fetched, the body
\* referencing cid:a
rawTwoCases ==
    [id |-> <<"m","5">>, threadId |-> <<"t">>, snippet |-> <<>>, labelIds |-> <<>>,
     payload |->
        [mimeType |-> sMultipartRelated, filename |-> <<>>, headers |-> <<>>, body |-> [size |-> 0],
         parts |-> << leafPart(sTextHtml, [size |-> 17, data |-> dataHtmlOneRef]),
                      fetchedImagePart(sContentId, <<"<","a",">">>, <<"a","t","t","-","a">>, <<>>),
                      embeddedImagePart(sContentId, <<"<","A",">">>) >>]]

\* an image a that carries its data and an attachmentId as well, the body
\* referencing cid:a
rawBothSources ==
    [id |-> <<"m","6">>, threadId |-> <<"t">>, snippet |-> <<>>, labelIds |-> <<>>,
     payload |->
        [mimeType |-> sMultipartRelated, filename |-> <<>>, headers |-> <<>>, body |-> [size |-> 0],
         parts |-> << leafPart(sTextHtml, [size |-> 17, data |-> dataHtmlOneRef]),
                      [mimeType |-> sImagePng, filename |-> <<>>,
                       headers |-> <<[name |-> sContentId, value |-> <<"<","a",">">>]>>,
                       body |-> [size |-> 3, data |-> dataImage,
                                 attachmentId |-> <<"a","t","t","-","a">>]] >>]]

RawMessages ==
    {Null, rawNoPayload, rawNoHeaders, rawSimple, rawTwoImages, rawTwoCases, rawBothSources}

RECURSIVE RawListsOfLen(_)
RawListsOfLen(n) ==
    IF n = 0 THEN {<<>>}
    ELSE { Append(raws, raw) : raws \in RawListsOfLen(n - 1), raw \in RawMessages }

RawListInputs(maxBatch) == UNION { RawListsOfLen(n) : n \in 0..maxBatch }

-----------------------------------------------------------------------------
(* fetchThread, from the messages of the thread on *)

InitThread ==
    /\ mbPc = "raw"
    /\ mbRaw \in RawListInputs(MaxBatch)
    /\ mbTasks = <<>>
    /\ mbEmails = <<>>
    /\ rrPc = "idle"
    /\ rrIn = <<>>
    /\ RRIdle
    /\ ExIdle
    /\ CidIdle
    /\ TxIdle

\* lines 583-589: the messages are formatted, the incomplete ones dropped, and
\* processInlineImages is started for each of the others
FormatMessages ==
    /\ mbPc = "raw"
    /\ LET results == [i \in 1..Len(mbRaw) |-> formatEmailMessage(mbRaw[i])]
       IN  IF \E i \in 1..Len(results) : results[i].threw
           THEN /\ mbPc' = "rejected"
                /\ UNCHANGED mbTasks
           ELSE LET formattedWithParts == dropNull([i \in 1..Len(results) |-> results[i].value])
                IN  /\ mbTasks' = [i \in 1..Len(formattedWithParts) |->
                                      processInlineImages(formattedWithParts[i])]
                    /\ mbPc' = "processing"
    /\ UNCHANGED <<mbRaw, mbEmails>>
    /\ UNCHANGED nonMbVars

\* the fetch of one awaited image answers OK with its data
FetchOk ==
    /\ mbPc = "processing"
    /\ \E i \in 1..Len(mbTasks) :
        /\ mbTasks[i].state = "awaiting"
        /\ mbTasks' = [mbTasks EXCEPT ![i] = onFetchOk(mbTasks[i], dataImage)]
    /\ UNCHANGED <<mbPc, mbRaw, mbEmails>>
    /\ UNCHANGED nonMbVars

\* the fetch of one awaited image answers with a status that is not OK
FetchNotOk ==
    /\ mbPc = "processing"
    /\ \E i \in 1..Len(mbTasks) :
        /\ mbTasks[i].state = "awaiting"
        /\ mbTasks' = [mbTasks EXCEPT ![i] = onFetchNotOk(mbTasks[i])]
    /\ UNCHANGED <<mbPc, mbRaw, mbEmails>>
    /\ UNCHANGED nonMbVars

\* the fetch of one awaited image throws
FetchThrows ==
    /\ mbPc = "processing"
    /\ \E i \in 1..Len(mbTasks) :
        /\ mbTasks[i].state = "awaiting"
        /\ mbTasks' = [mbTasks EXCEPT ![i] = onFetchError(mbTasks[i])]
    /\ UNCHANGED <<mbPc, mbRaw, mbEmails>>
    /\ UNCHANGED nonMbVars

\* the batch settled by the messages collected last task first
SettleAllLastFirst ==
    /\ mbPc = "processing"
    /\ IF \E i \in 1..Len(mbTasks) : mbTasks[i].state = "rejected"
       THEN /\ mbPc' = "rejected"
            /\ UNCHANGED mbEmails
       ELSE /\ \A i \in 1..Len(mbTasks) : mbTasks[i].state = "fulfilled"
            /\ mbEmails' = [i \in 1..Len(mbTasks) |-> mbTasks[Len(mbTasks) + 1 - i].email]
            /\ mbPc' = "fulfilled"
    /\ UNCHANGED <<mbRaw, mbTasks>>
    /\ UNCHANGED nonMbVars

\* lines 588-592: Promise.all is settled, by the messages in the order of the
\* tasks when every task is fulfilled, by a rejection as soon as one is rejected
SettleAll ==
    /\ mbPc = "processing"
    /\ IF \E i \in 1..Len(mbTasks) : mbTasks[i].state = "rejected"
       THEN /\ mbPc' = "rejected"
            /\ UNCHANGED mbEmails
       ELSE /\ \A i \in 1..Len(mbTasks) : mbTasks[i].state = "fulfilled"
            /\ mbEmails' = [i \in 1..Len(mbTasks) |-> mbTasks[i].email]
            /\ mbPc' = "fulfilled"
    /\ UNCHANGED <<mbRaw, mbTasks>>
    /\ UNCHANGED nonMbVars

NextThread == FormatMessages \/ FetchOk \/ FetchNotOk \/ FetchThrows \/ SettleAll

SpecThread == InitThread /\ [][NextThread]_vars

-----------------------------------------------------------------------------
(* Inputs of convertTextToHtml *)

\* the pieces input plain-text bodies are made of: plain characters, the five
\* characters the escaping rewrites, the three line breaks, URLs, and text
\* that looks like the markup and the entities the conversion writes
TextPieces ==
    { <<"a">>, <<" ">>, <<"&">>, <<"<">>, <<">">>, <<"\"">>, <<"'">>,
      <<"\n">>, <<"\r">>,
      sHttp \o <<"x">>, sHttps \o <<"y">>, sHttp,
      sBr, sAmp, <<"<","/","a",">">>, <<"?","q","=","1","&","r">> }

RECURSIVE TextsOfLen(_)
TextsOfLen(n) ==
    IF n = 0 THEN {<<>>}
    ELSE {p \o t : p \in TextPieces, t \in TextsOfLen(n - 1)}

TextInputs(maxTextPieces) == UNION {TextsOfLen(n) : n \in 0..maxTextPieces}

-----------------------------------------------------------------------------
(* Caller of convertTextToHtml *)

\* a caller holding the decoded text/plain body of a message
InitText ==
    /\ txPc = "text"
    /\ txText \in TextInputs(MaxTextPieces)
    /\ txHtml = <<>>
    /\ rrPc = "idle"
    /\ rrIn = <<>>
    /\ RRIdle
    /\ ExIdle
    /\ CidIdle
    /\ MbIdle

\* html = convertTextToHtml(text)
ConvertText ==
    /\ txPc = "text"
    /\ txHtml' = convertTextToHtml(txText)
    /\ txPc' = "html"
    /\ UNCHANGED txText
    /\ UNCHANGED nonTxVars

NextText == ConvertText

SpecText == InitText /\ [][NextText]_vars

-----------------------------------------------------------------------------
(* Inputs of extractAttachments and extractInlineImageParts *)

sPdf == <<"a","p","p","l","i","c","a","t","i","o","n","/","p","d","f">>
sContentIdHeader == <<"C","o","n","t","e","n","t","-","I","D">>

\* what a part of an input message is, its children aside: files, inline
\* images whose data is carried or to be fetched, and parts that are neither
MessagePartKinds ==
    { \* a file that also carries a Content-ID header
      [mimeType |-> sPdf, filename |-> <<"a",".","p","d","f">>,
       headers |-> <<[name |-> sContentIdHeader, value |-> <<"<","p",">">>]>>,
       body |-> [size |-> 7, attachmentId |-> <<"a","t","t","-","1">>]],
      \* an inline image that is also a file
      fetchedImagePart(sContentIdHeader, <<"<","a",">">>, <<"a","t","t","-","2">>,
                       <<"a",".","p","n","g">>),
      \* an inline image to be fetched, its header name in lower case and its
      \* identifier without angle brackets
      fetchedImagePart(sContentId, <<"b">>, <<"a","t","t","-","3">>, <<>>),
      \* an inline image that carries its data, its header name in upper case
      \* and its identifier in two pairs of angle brackets
      [mimeType |-> sImagePng, filename |-> <<"c",".","p","n","g">>,
       headers |-> <<[name |-> toUpperCase(sContentId), value |-> <<"<","<","c",">",">">>]>>,
       body |-> [size |-> 3, data |-> dataImage]],
      \* an image with a Content-ID header and neither data nor attachmentId
      [mimeType |-> sImagePng, filename |-> <<>>,
       headers |-> <<[name |-> sContentIdHeader, value |-> <<"<","d",">">>]>>,
       body |-> [size |-> 0]],
      \* an image file without a Content-ID header
      [mimeType |-> sImagePng, filename |-> <<"e",".","p","n","g">>,
       headers |-> <<[name |-> sSubject, value |-> <<"e">>]>>,
       body |-> [size |-> 0, attachmentId |-> <<"a","t","t","-","4">>]],
      \* a container
      [mimeType |-> sMultipart, filename |-> <<>>, headers |-> <<>>, body |-> [size |-> 0]] }

\* what the root of an input message is, its children aside: a container, a
\* message that consists of one file, and one that consists of one image
MessageRootKinds ==
    { [mimeType |-> sMultipart, filename |-> <<>>, headers |-> <<>>, body |-> [size |-> 0]],
      [mimeType |-> sPdf, filename |-> <<"r",".","p","d","f">>,
       headers |-> <<[name |-> sSubject, value |-> <<"r">>]>>,
       body |-> [size |-> 9, attachmentId |-> <<"a","t","t","-","0">>]],
      fetchedImagePart(sContentIdHeader, <<"<","r",">">>, <<"a","t","t","-","9">>, <<>>) }

\* a part or root of some kind with the given children (no parts field when
\* childless)
withSubparts(kind, children) ==
    IF children = <<>> THEN kind
    ELSE [mimeType |-> kind.mimeType, filename |-> kind.filename, headers |-> kind.headers,
          body |-> kind.body, parts |-> children]

\* the lists of message part trees that hold n parts in all
RECURSIVE MessageForests(_)
MessageForests(n) ==
    IF n = 0 THEN {<<>>}
    ELSE UNION { { <<withSubparts(kind, children)>> \o siblings :
                     kind \in MessagePartKinds,
                     children \in MessageForests(k - 1),
                     siblings \in MessageForests(n - k) } : k \in 1..n }

\* payload is a message root of some kind over at most maxParts parts
IsMessageInput(payload, maxParts) ==
    \E n \in 0..maxParts : \E parts \in MessageForests(n) : \E root \in MessageRootKinds :
        payload = withSubparts(root, parts)

-----------------------------------------------------------------------------
(* Callers of extractAttachments and extractInlineImageParts *)

\* formatEmailMessage holding the payload of a complete message
InitParts ==
    /\ exPc = "payload"
    /\ IsMessageInput(exPayload, MaxParts)
    /\ exBody = [threw |-> FALSE, value |-> <<>>]
    /\ exFound = [htmlBody |-> <<>>, textBody |-> <<>>]
    /\ exAttachments = <<>>
    /\ exImages = <<>>
    /\ rrPc = "idle"
    /\ rrIn = <<>>
    /\ RRIdle
    /\ CidIdle
    /\ MbIdle
    /\ TxIdle

\* inlineImageParts = extractInlineImageParts(payload)
ExtractInlineImageParts ==
    /\ exPc = "payload"
    /\ exImages' = extractInlineImageParts(exPayload)
    /\ exPc' = "images"
    /\ UNCHANGED <<exPayload, exBody, exFound, exAttachments>>
    /\ UNCHANGED nonExVars

\* attachments = extractAttachments(payload, id)
ExtractAttachments ==
    /\ exPc \in {"payload", "images"}
    /\ exAttachments' = extractAttachments(exPayload)
    /\ exPc' = "attachments"
    /\ UNCHANGED <<exPayload, exBody, exFound, exImages>>
    /\ UNCHANGED nonExVars

NextParts == ExtractInlineImageParts \/ ExtractAttachments

SpecParts == InitParts /\ [][NextParts]_vars

-----------------------------------------------------------------------------
(* Inputs of the header resolution of formatEmailMessage *)

\* the names of input headers: the three resolved ones as the code writes
\* them, two of them in another case, and one the code does not read
HeaderNames ==
    { sSubject, toLowerCase(sSubject), sFrom, toUpperCase(sFrom), sTo,
      <<"X","-","T","o">> }

HeaderValues == { <<>>, <<"v">>, <<"w">> }

RECURSIVE HeaderListsOfLen(_)
HeaderListsOfLen(n) ==
    IF n = 0 THEN {<<>>}
    ELSE { Append(headers, [name |-> name, value |-> value]) :
             headers \in HeaderListsOfLen(n - 1), name \in HeaderNames, value \in HeaderValues }

HeaderListInputs(maxHeaders) == UNION { HeaderListsOfLen(n) : n \in 0..maxHeaders }

\* a raw message with an HTML body and the given payload headers
rawWithHeaders(headers) ==
    [id |-> <<"m","7">>, threadId |-> <<"t">>, snippet |-> <<>>, labelIds |-> <<>>,
     payload |-> [mimeType |-> sTextHtml, filename |-> <<>>, headers |-> headers,
                  body |-> [size |-> 9, data |-> dataHtml]]]

-----------------------------------------------------------------------------
(* fetchThread of a thread of one message without images *)

InitHeaders ==
    /\ mbPc = "raw"
    /\ \E headers \in HeaderListInputs(MaxHeaders) : mbRaw = <<rawWithHeaders(headers)>>
    /\ mbTasks = <<>>
    /\ mbEmails = <<>>
    /\ rrPc = "idle"
    /\ rrIn = <<>>
    /\ RRIdle
    /\ ExIdle
    /\ CidIdle
    /\ TxIdle

NextHeaders == FormatMessages \/ SettleAll

SpecHeaders == InitHeaders /\ [][NextHeaders]_vars

-----------------------------------------------------------------------------
(* RecurrenceEditor (src/unnamed/part_012) *)

\* lines 43-49: the state the editor derives from its value
editorState(value) ==
    IF TruthyStr(value) THEN rruleToUIState(value) ELSE getDefaultRecurrenceUIState

\* lines 52-61: the value updateState hands to onChange for the new state, the
\* empty string standing for the empty list
updateState(newState) ==
    IF newState.enabled THEN uiStateToRRule(newState) ELSE <<>>

\* lines 129-131: the weekday list after a click on the button of a day
toggleDay(weeklyDays, day) ==
    IF \E i \in 1..Len(weeklyDays) : weeklyDays[i] = day
    THEN SelectSeq(weeklyDays, LAMBDA d : d # day)
    ELSE Append(weeklyDays, day)

\* the values the editor is mounted with, and the texts typed into its raw
\* rule field
EditorValues ==
    { <<>>,
      sRRULE \o clause(sFREQ, sDAILY) \o <<";">> \o clause(sUNTIL, s20251231),
      sRRULE \o clause(sFREQ, sMONTHLY) \o <<";">> \o clause(sBYDAY, <<"2">> \o sTU),
      clause(sFREQ, sWEEKLY) \o <<";">> \o clause(sCOUNT, <<"3">>),
      <<"x">> }

\* the weekday buttons and options that are used
EditorWeekdays == {sMO, sFR}

\* the options of the three selects of a monthly rule that are used
EditorDaysOfMonth == {1, 15}
EditorOrdinals == {1, -1}

\* the counts typed into the number field, 0 for a text parseInt cannot read
EditorCounts == {0, 3}

\* the dates picked in the date field, the empty string for a cleared field
EditorDates == {<<>>, sDate}

-----------------------------------------------------------------------------
(* The handlers of the RecurrenceEditor *)

InitEditor ==
    /\ rrPc = "mounted"
    /\ rrIn \in EditorValues
    /\ rrText = rrIn
    /\ rrUi = editorState(rrIn)
    /\ rrRule = Null
    /\ rrFirst = Null
    /\ rrLabel = <<>>
    /\ rrDesc = <<>>
    /\ ExIdle
    /\ CidIdle
    /\ MbIdle
    /\ TxIdle

\* updateState(updates) and the next render: the value handed to onChange
\* comes back as the value of the editor, and the state is derived from it
Update(newState, event) ==
    /\ rrText' = updateState(newState)
    /\ rrUi' = editorState(rrText')
    /\ rrPc' = event
    /\ UNCHANGED <<rrIn, rrRule, rrFirst, rrLabel, rrDesc>>
    /\ UNCHANGED nonRrVars

\* lines 71-75: the checkbox
ToggleEnabled ==
    LET checked == ~rrUi.enabled
    IN  Update([rrUi EXCEPT !.enabled = checked], "enabled")

\* lines 92-102: the interval select
SelectInterval ==
    /\ rrUi.enabled
    /\ \E n \in 1..MaxInterval : Update([rrUi EXCEPT !.interval = n], "interval")

\* lines 104-116: the frequency select
SelectFreq ==
    /\ rrUi.enabled
    /\ \E freq \in Frequencies : Update([rrUi EXCEPT !.freq = freq], "freq")

\* lines 120-133: a weekday button of a weekly rule
ClickWeekday ==
    /\ rrUi.enabled
    /\ rrUi.freq = sWEEKLY
    /\ \E day \in EditorWeekdays :
           Update([rrUi EXCEPT !.weeklyDays = toggleDay(rrUi.weeklyDays, day)], "weeklyDays")

\* lines 152-157 and 177-182: the two radio buttons of a monthly rule
ChooseMonthlyType ==
    /\ rrUi.enabled
    /\ rrUi.freq = sMONTHLY
    /\ \E type \in {"dayOfMonth", "dayOfWeek"} :
           Update([rrUi EXCEPT !.monthlyType = type], "monthlyType")

\* lines 161-172: the day-of-month select, enabled under dayOfMonth
SelectDayOfMonth ==
    /\ rrUi.enabled
    /\ rrUi.freq = sMONTHLY
    /\ rrUi.monthlyType = "dayOfMonth"
    /\ \E day \in EditorDaysOfMonth :
           Update([rrUi EXCEPT !.monthlyDayOfMonth = day], "monthlyDayOfMonth")

\* lines 186-197: the ordinal select, enabled under dayOfWeek
SelectWeekOrdinal ==
    /\ rrUi.enabled
    /\ rrUi.freq = sMONTHLY
    /\ rrUi.monthlyType = "dayOfWeek"
    /\ \E ordinal \in EditorOrdinals :
           Update([rrUi EXCEPT !.monthlyWeekOrdinal = ordinal], "monthlyWeekOrdinal")

\* lines 198-209: the weekday select, enabled under dayOfWeek
SelectWeekDay ==
    /\ rrUi.enabled
    /\ rrUi.freq = sMONTHLY
    /\ rrUi.monthlyType = "dayOfWeek"
    /\ \E day \in EditorWeekdays :
           Update([rrUi EXCEPT !.monthlyWeekDay = day], "monthlyWeekDay")

\* lines 219-224: the radio button "never"
ChooseEndNever ==
    /\ rrUi.enabled
    /\ Update([rrUi EXCEPT !.endType = "never"], "endTypeNever")

\* lines 231-236: the radio button "count"
ChooseEndCount ==
    /\ rrUi.enabled
    /\ Update([rrUi EXCEPT !.endType = "count"], "endTypeCount")

\* lines 254-259: the radio button "until"
ChooseEndUntil ==
    /\ rrUi.enabled
    /\ Update([rrUi EXCEPT !.endType = "until"], "endTypeUntil")

\* lines 240-247: the count field, enabled under count; parseInt(...) || 1
TypeEndCount ==
    /\ rrUi.enabled
    /\ rrUi.endType = "count"
    /\ \E n \in EditorCounts :
           Update([rrUi EXCEPT !.endCount = IF TruthyNum(n) THEN n ELSE 1], "endCount")

\* lines 263-268: the date field, enabled under until
PickEndUntil ==
    /\ rrUi.enabled
    /\ rrUi.endType = "until"
    /\ \E date \in EditorDates : Update([rrUi EXCEPT !.endUntil = date], "endUntil")

\* lines 283-291: the raw rule field of an enabled editor, shown after a click
\* on its toggle (lines 276-282), which changes nothing else
TypeRawRule ==
    /\ rrUi.enabled
    /\ \E text \in EditorValues :
        /\ rrIn' = text
        /\ rrText' = text
        /\ rrUi' = editorState(text)
        /\ rrPc' = "rawRule"
        /\ UNCHANGED <<rrRule, rrFirst, rrLabel, rrDesc>>
        /\ UNCHANGED nonRrVars

NextEditor ==
    \/ ToggleEnabled \/ SelectInterval \/ SelectFreq \/ ClickWeekday
    \/ ChooseMonthlyType \/ SelectDayOfMonth \/ SelectWeekOrdinal \/ SelectWeekDay
    \/ ChooseEndNever \/ ChooseEndCount \/ ChooseEndUntil \/ TypeEndCount \/ PickEndUntil
    \/ TypeRawRule

SpecEditor == InitEditor /\ [][NextEditor]_vars

-----------------------------------------------------------------------------
(* Properties of parseRRule and buildRRule *)

ListFields == {"byDay", "byMonthDay", "byMonth", "bySetPos"}

\* a field value that buildRRule leaves out because it is the default
IsDefaultValue(k, v) == (k = "interval" /\ v = 1) \/ (k \in ListFields /\ v = <<>>)

\* C2 as stated: parseRRule(buildRRule(rule)) has every explicitly-set field of
\* rule, with the same value
C2_RoundTripEverySetField ==
    (rrPc = "reparsed") =>
        /\ rrRule # Null
        /\ \A k \in DOMAIN rrIn : Has(rrRule, k) /\ rrRule[k] = rrIn[k]

\* C2 amended: parseRRule(buildRRule(rule)) has every explicitly-set field of rule
\* with the same value, except that an interval of 1 and an empty BY* list are
\* read back as absent
C2_RoundTripNonDefaultFields ==
    (rrPc = "reparsed") =>
        /\ rrRule # Null
        /\ \A k \in DOMAIN rrIn :
              IF IsDefaultValue(k, rrIn[k]) THEN ~Has(rrRule, k)
              ELSE Has(rrRule, k) /\ rrRule[k] = rrIn[k]
        /\ DOMAIN rrRule \subseteq DOMAIN rrIn

\* a rule with an interval above 1, a count, a negative month day and a week
\* start has been built and parsed again
C2_Witness ==
    /\ rrPc = "reparsed"
    /\ \E k \in DOMAIN rrIn : k # "freq" /\ ~IsDefaultValue(k, rrIn[k])
    /\ \E k \in DOMAIN rrIn : IsDefaultValue(k, rrIn[k])

\* the interval of a rule, absent counted as 1
EffectiveInterval(rule) == IF Has(rule, "interval") THEN rule.interval ELSE 1

\* semantic equality of two parsed rules
SameMeaning(a, b) ==
    /\ a # Null /\ b # Null
    /\ a.freq = b.freq
    /\ EffectiveInterval(a) = EffectiveInterval(b)
    /\ \A k \in {"count", "until", "byDay", "byMonthDay", "byMonth", "bySetPos", "wkst"} :
          /\ Has(a, k) <=> Has(b, k)
          /\ Has(a, k) => a[k] = b[k]

\* C3 as stated: for every string parseRRule accepts, the rebuilt string is
\* accepted again and parses to a semantically equal rule
C3_RebuildKeepsMeaning ==
    (rrPc = "reparsed") => SameMeaning(rrRule, rrFirst)

\* INTERVAL and COUNT, where given, are positive integers
PositiveNumbers(rule) ==
    /\ Has(rule, "interval") => rule.interval >= 1
    /\ Has(rule, "count") => rule.count >= 1

\* C3 amended: for every string parseRRule accepts whose INTERVAL and COUNT
\* values, where given, are positive integers, the rebuilt string is accepted
\* again and parses to a semantically equal rule
C3_RebuildKeepsMeaningPositive ==
    (rrPc = "reparsed" /\ PositiveNumbers(rrFirst)) => SameMeaning(rrRule, rrFirst)

\* a hand-written string in another clause order and letter case than the
\* builder's has been parsed, rebuilt and parsed again
C3_Witness ==
    /\ rrPc = "reparsed"
    /\ PositiveNumbers(rrFirst)
    /\ Has(rrFirst, "interval") /\ Has(rrFirst, "byDay")
    /\ rrText # rrIn
    /\ stripPrefix(rrText) # stripPrefix(rrIn)

-----------------------------------------------------------------------------
(* Properties of the unparseable-rule fallbacks *)

\* FREQ=<non-empty value>, the key in any letter case
IsFrequencyClause(part) ==
    /\ Len(part) >= Len(sFREQ) + 2
    /\ toUpperCase(SubSeq(part, 1, Len(sFREQ))) = sFREQ
    /\ part[Len(sFREQ) + 1] = "="
    /\ part[Len(sFREQ) + 2] # "="

\* the string has no frequency clause
NoFrequencyClause(s) ==
    LET parts == split(stripPrefix(s), ";")
    IN  \A i \in 1..Len(parts) : ~IsFrequencyClause(parts[i])

\* C8: rruleToUIState of the empty string, or of a string without frequency
\* clause, is exactly the default state
C8_NoFrequencyGivesDefaultState ==
    (rrPc = "ui" /\ NoFrequencyClause(rrIn)) =>
        /\ rrUi.enabled = FALSE
        /\ rrUi.freq = <<"W","E","E","K","L","Y">>
        /\ rrUi.interval = 1
        /\ rrUi.weeklyDays = <<>>
        /\ rrUi.monthlyType = "dayOfMonth"
        /\ rrUi.monthlyDayOfMonth = 1
        /\ rrUi.monthlyWeekOrdinal = 1
        /\ rrUi.monthlyWeekDay = <<"M","O">>
        /\ rrUi.endType = "never"
        /\ rrUi.endCount = 10
        /\ rrUi.endUntil = <<>>
        /\ DOMAIN rrUi = {"enabled", "freq", "interval", "weeklyDays", "monthlyType",
                          "monthlyDayOfMonth", "monthlyWeekOrdinal", "monthlyWeekDay",
                          "endType", "endCount", "endUntil"}

\* rruleToUIState has been applied to INTERVAL=2;COUNT=3, which has clauses
\* but no frequency
C8_Witness ==
    /\ rrPc = "ui"
    /\ rrIn = clause(sINTERVAL, <<"2">>) \o <<";">> \o clause(sCOUNT, <<"3">>)
    /\ NoFrequencyClause(rrIn)

\* C9: uiStateToRRule returns the empty string for every state with
\* enabled=false, whatever the other fields
C9_DisabledGivesEmptyString ==
    (rrPc = "saved" /\ ~rrIn.enabled) => rrText = <<>>

\* uiStateToRRule has been applied to a disabled monthly state that carries an
\* interval, a count end and an end date
C9_Witness ==
    /\ rrPc = "saved"
    /\ ~rrIn.enabled
    /\ rrIn.freq = sMONTHLY
    /\ rrIn.interval > 1
    /\ rrIn.endType = "count"
    /\ rrIn.endUntil # <<>>

\* C10 as stated: a string without frequency clause parses to no rule, and both
\* describers return the empty string for it
C10_NoFrequencyDescribedAsEmpty ==
    NoFrequencyClause(rrIn) =>
        /\ (rrPc = "parsed") => rrRule = Null
        /\ (rrPc = "labelled") => rrLabel = <<>>
        /\ (rrPc = "described") => rrDesc = <<>>

\* C10 amended: a string without frequency clause parses to no rule,
\* getRecurrenceLabel returns the empty label for it, and rruleToJapanese
\* returns the input string itself, which is empty only for the empty input
C10_NoFrequencyLabelEmptyDescriptionEcho ==
    NoFrequencyClause(rrIn) =>
        /\ (rrPc = "parsed") => rrRule = Null
        /\ (rrPc = "labelled") => rrLabel = <<>>
        /\ (rrPc = "described") => rrDesc = rrIn

\* rruleToJapanese has been applied to a non-empty string without frequency
\* clause
C10_Witness ==
    /\ rrPc = "described"
    /\ NoFrequencyClause(rrIn)
    /\ rrIn = clause(sBYDAY, join(<<sMO, sWE, sFR>>, <<",">>))

-----------------------------------------------------------------------------
(* Properties of extractBody *)

\* the parts of a list of part trees, each part before its children and
\* before its later siblings
RECURSIVE PartsInOrder(_)
PartsInOrder(parts) ==
    IF parts = <<>> THEN <<>>
    ELSE <<Head(parts)>>
         \o (IF Has(Head(parts), "parts") THEN PartsInOrder(Head(parts).parts) ELSE <<>>)
         \o PartsInOrder(Tail(parts))

\* the root of a payload, then its parts
PayloadInOrder(payload) ==
    <<payload>> \o (IF Has(payload, "parts") THEN PartsInOrder(payload.parts) ELSE <<>>)

\* the body data of the parts of one MIME type that carry data, in order
DataOfType(payload, mimeType) ==
    LET all == PayloadInOrder(payload)
    IN  SelectSeq([i \in 1..Len(all) |-> IF all[i].mimeType = mimeType THEN bodyData(all[i]) ELSE <<>>],
                  LAMBDA d : d # <<>>)

Range(seq) == {seq[i] : i \in 1..Len(seq)}

\* what the input data stand for, written out by hand: the decoded text, the
\* empty string where decoding fails
TextOf(data) ==
    CASE data = dataHtml -> <<"<","p",">","H","i","<","/","p",">">>
      [] data = dataPlain -> <<"<","<","?",">",">">>
      [] data = dataHtmlBad -> <<>>
      [] data = dataPlainBad -> <<>>

\* the plain texts of the inputs as HTML, written out by hand
PromotedOf(data) ==
    CASE data = dataPlain -> <<"&","l","t",";","&","l","t",";","?","&","g","t",";","&","g","t",";">>
      [] data = dataPlainBad -> <<>>

\* C1: when the tree holds an HTML part with data and a plain part with data,
\* the body is the decoded data of an HTML part (the first one) and differs
\* from every promoted plain text that is not itself such a decoded HTML; the
\* promoted plain text (of the first plain part) is the body when and only
\* when no HTML part with data exists
C1_HtmlWinsOverPlain ==
    exPc = "body" =>
        LET html == DataOfType(exPayload, sTextHtml)
            plain == DataOfType(exPayload, sTextPlain)
        IN  /\ (html # <<>> /\ plain # <<>>) =>
                   /\ exBody.value = TextOf(html[1])
                   /\ \A d \in Range(plain) :
                          PromotedOf(d) \notin {TextOf(h) : h \in Range(html)}
                              => exBody.value # PromotedOf(d)
            /\ (html = <<>> /\ plain # <<>>) => exBody.value = PromotedOf(plain[1])
            /\ html # <<>> => exBody.value = TextOf(html[1])

\* a plain part comes before the HTML part, which lies deeper, and the body is
\* the HTML
C1_Witness ==
    /\ exPc = "body"
    /\ exPayload.mimeType = sMultipart
    /\ Has(exPayload, "parts")
    /\ Len(exPayload.parts) = 2
    /\ bodyData(exPayload.parts[1]) = dataPlain
    /\ Has(exPayload.parts[2], "parts")
    /\ bodyData(exPayload.parts[2].parts[1]) = dataHtml
    /\ exPayload.parts[2].parts[1].mimeType = sTextHtml
    /\ exBody.value = <<"<","p",">","H","i","<","/","p",">">>

\* the data that decodeBase64 cannot decode, known by construction
Undecodable == {dataHtmlBad, dataPlainBad}

\* the data extractBody selects: the first HTML, else the first plain text
SelectedData(payload) ==
    LET html == DataOfType(payload, sTextHtml)
        plain == DataOfType(payload, sTextPlain)
    IN  IF html # <<>> THEN html[1] ELSE IF plain # <<>> THEN plain[1] ELSE <<>>

\* C7: extractBody does not throw; a payload without parts and without root
\* body data gives '', and so does a selected body that cannot be decoded
C7_ExtractBodyNeverThrows ==
    exPc = "body" =>
        /\ ~exBody.threw
        /\ (~Has(exPayload, "parts") /\ bodyData(exPayload) = <<>>) => exBody.value = <<>>
        /\ SelectedData(exPayload) \in Undecodable => exBody.value = <<>>

\* the selected HTML part is undecodable although a decodable plain part
\* exists, and the body is ''
C7_Witness ==
    /\ exPc = "body"
    /\ SelectedData(exPayload) = dataHtmlBad
    /\ dataPlain \in Range(DataOfType(exPayload, sTextPlain))
    /\ ~exBody.threw
    /\ exBody.value = <<>>

\* the fully empty payload
C7_WitnessEmptyPayload ==
    /\ exPc = "body"
    /\ ~Has(exPayload, "parts")
    /\ bodyData(exPayload) = <<>>
    /\ exBody = [threw |-> FALSE, value |-> <<>>]

-----------------------------------------------------------------------------
(* Properties of replaceCidWithDataUri *)

\* the percent-encoded forms of the input identifiers, written out by hand
EncodedForm(id) ==
    CASE id = <<"a","@","b">> -> <<"a","%","4","0","b">>
      [] id = <<"A","@","b">> -> <<"A","%","4","0","b">>
      [] id = <<"a",".","b">> -> <<"a",".","b">>
      [] id \in {<<"a">>, <<"A">>, <<"b">>} -> id

SameIgnoringCase(a, b) == toLowerCase(a) = toLowerCase(b)

\* a reference written with this identifier names the image, by its identifier
\* or by the percent-encoded form of it
RefersTo(written, image) ==
    \/ SameIgnoringCase(written, image.contentId)
    \/ SameIgnoringCase(written, EncodedForm(image.contentId))

\* data:<mimeType>;base64,<data>
UriOf(image) ==
    <<"d","a","t","a",":","i","m","a","g","e","/","p","n","g",";","b","a","s","e","6","4",",">>
        \o image.data

\* the reference with the URI of an image in place of cid:<identifier>
Resolved(seg, image) == seg.attr \o <<seg.open>> \o UriOf(image) \o <<seg.close>>

\* t occurs in s
Contains(s, t) == \E p \in 1..(Len(s) - Len(t) + 1) : \A i \in 1..Len(t) : s[p + i - 1] = t[i]

\* some reference src="cid:<form>" or src='cid:<form>' occurs in s, whatever
\* the case of its letters
HasReference(s, form) ==
    LET lower == toLowerCase(s)
    IN  \E q1 \in {"\"", "'"}, q2 \in {"\"", "'"} :
            Contains(lower,
                     <<"s","r","c","=">> \o <<q1>> \o <<"c","i","d",":">> \o toLowerCase(form) \o <<q2>>)

\* no reference to a resolved image remains in the result
NoReferenceRemains ==
    \A i \in 1..Len(cidImages) :
        /\ ~HasReference(cidResult, cidImages[i].contentId)
        /\ ~HasReference(cidResult, EncodedForm(cidImages[i].contentId))

\* C4 as stated: no reference to a resolved image remains, and every reference
\* to an image has been replaced by the URI of that image
C4_EveryReferenceGetsItsImage ==
    cidPc = "replaced" =>
        /\ NoReferenceRemains
        /\ \A i \in 1..Len(cidImages), k \in 1..Len(cidSegments) :
               (cidSegments[k].ref /\ RefersTo(cidSegments[k].id, cidImages[i]))
                   => Contains(cidResult, Resolved(cidSegments[k], cidImages[i]))

\* the first image of the list a reference names, 0 when there is none
FirstReferent(seg, images) ==
    IF \E i \in 1..Len(images) : RefersTo(seg.id, images[i])
    THEN CHOOSE i \in 1..Len(images) :
             /\ RefersTo(seg.id, images[i])
             /\ \A j \in 1..(i - 1) : ~RefersTo(seg.id, images[j])
    ELSE 0

\* a piece of body after the replacement
ExpectedSegment(seg, images) ==
    IF seg.ref /\ FirstReferent(seg, images) # 0
    THEN Resolved(seg, images[FirstReferent(seg, images)])
    ELSE segmentText(seg)

RECURSIVE ExpectedBody(_, _)
ExpectedBody(segments, images) ==
    IF segments = <<>> THEN <<>>
    ELSE ExpectedSegment(Head(segments), images) \o ExpectedBody(Tail(segments), images)

\* C4, amended: no reference to a resolved image remains, and every reference
\* has been replaced by the URI of the first image of the list that it names
\* (by identifier or percent-encoded identifier, whatever the case), the rest
\* of the body being left as it was
C4_EveryReferenceGetsFirstMatchingImage ==
    cidPc = "replaced" =>
        /\ NoReferenceRemains
        /\ cidResult = ExpectedBody(cidSegments, cidImages)

\* a percent-encoded reference and a plain one, both replaced by the URI of
\* the one image they name
C4_Witness ==
    /\ cidPc = "replaced"
    /\ Len(cidImages) = 1
    /\ cidImages[1].contentId = <<"a","@","b">>
    /\ Len(cidSegments) = 2
    /\ cidSegments[1].ref /\ cidSegments[1].id = <<"a","%","4","0","b">>
    /\ cidSegments[2].ref /\ cidSegments[2].id = <<"A","@","b">>
    /\ cidResult = Resolved(cidSegments[1], cidImages[1]) \o Resolved(cidSegments[2], cidImages[1])

-----------------------------------------------------------------------------
(* Properties of fetchThread *)

\* a raw message with a payload and a payload header list
IsComplete(raw) == "payload" \in DOMAIN raw /\ "headers" \in DOMAIN raw.payload

IdsOf(messages) == [i \in 1..Len(messages) |-> messages[i].id]

\* C6: a raw message without payload or without payload headers yields no
\* record and no exception; the result holds one record for each of the other
\* raw messages, in their order
C6_IncompleteMessagesDropped ==
    /\ mbPc # "rejected"
    /\ mbPc = "processing" => Len(mbTasks) = Len(SelectSeq(mbRaw, IsComplete))
    /\ mbPc = "fulfilled" => IdsOf(mbEmails) = IdsOf(SelectSeq(mbRaw, IsComplete))

\* a message without payload headers before a complete one: one record, of
\* the second message
C6_Witness ==
    /\ mbPc = "fulfilled"
    /\ mbRaw = <<rawNoHeaders, rawTwoImages>>
    /\ IdsOf(mbEmails) = << <<"m","4">> >>

\* the inline-image candidates of the input messages, written out by hand:
\* identifier, and whether the data has to be fetched
CandidatesOf(id) ==
    CASE id = <<"m","4">> -> << [contentId |-> <<"a">>, fetched |-> TRUE],
                               [contentId |-> <<"b">>, fetched |-> TRUE] >>
      [] id = <<"m","5">> -> << [contentId |-> <<"a">>, fetched |-> TRUE],
                               [contentId |-> <<"A">>, fetched |-> FALSE] >>
      [] id = <<"m","6">> -> << [contentId |-> <<"a">>, fetched |-> FALSE] >>
      [] OTHER -> <<>>

\* the image of a candidate once resolved: every image of the inputs has the
\* same type and the same bytes
ImageOf(candidate) ==
    [contentId |-> candidate.contentId, mimeType |-> <<"i","m","a","g","e","/","p","n","g">>,
     data |-> <<"P","j","4","+">>]

\* the candidates whose retrieval failed, given the replies to the fetches in
\* their order
RECURSIVE FailedOf(_, _)
FailedOf(candidates, replies) ==
    IF candidates = <<>> THEN <<>>
    ELSE IF ~Head(candidates).fetched THEN FailedOf(Tail(candidates), replies)
    ELSE (IF Head(replies) = "ok" THEN <<>> ELSE <<Head(candidates)>>)
         \o FailedOf(Tail(candidates), Tail(replies))

\* the images of the candidates that carry their data or whose fetch succeeded
RECURSIVE ResolvedOf(_, _)
ResolvedOf(candidates, replies) ==
    IF candidates = <<>> THEN <<>>
    ELSE IF ~Head(candidates).fetched
    THEN <<ImageOf(Head(candidates))>> \o ResolvedOf(Tail(candidates), replies)
    ELSE (IF Head(replies) = "ok" THEN <<ImageOf(Head(candidates))>> ELSE <<>>)
         \o ResolvedOf(Tail(candidates), Tail(replies))

\* a failed retrieval leaves the task running to its end, and the resolved
\* list is the candidates without the failed ones
FailureSkipsOneImage ==
    /\ mbPc # "rejected"
    /\ \A i \in 1..Len(mbTasks) :
           /\ mbTasks[i].state # "rejected"
           /\ mbTasks[i].state = "fulfilled" =>
                  mbTasks[i].email.inlineImages
                      = ResolvedOf(CandidatesOf(mbTasks[i].email.id), mbTasks[i].replies)

\* C5 as stated: a failed retrieval omits that image alone, the other
\* candidates are processed, nothing is thrown, and the body keeps the
\* reference to the failed image
C5_FailedImageReferenceKept ==
    /\ FailureSkipsOneImage
    /\ \A i \in 1..Len(mbTasks) :
           mbTasks[i].state = "fulfilled" =>
               LET failed == FailedOf(CandidatesOf(mbTasks[i].email.id), mbTasks[i].replies)
               IN  \A k \in 1..Len(failed) :
                       HasReference(mbTasks[i].email.body, failed[k].contentId)

\* <img src="...">, the source being the URI of the first resolved image with
\* this identifier (whatever the case), else the reference itself
ImgTag(id, resolved) ==
    LET named == SelectSeq(resolved, LAMBDA image : SameIgnoringCase(id, image.contentId))
    IN  <<"<","i","m","g"," ","s","r","c","=","\"">>
            \o (IF named # <<>> THEN UriOf(named[1]) ELSE <<"c","i","d",":">> \o id)
            \o <<"\"",">">>

\* the bodies of the input messages with inline images, written out by hand
BodyOf(id, resolved) ==
    CASE id = <<"m","4">> -> ImgTag(<<"a">>, resolved) \o ImgTag(<<"b">>, resolved)
      [] id = <<"m","5">> -> ImgTag(<<"a">>, resolved)
      [] id = <<"m","6">> -> ImgTag(<<"a">>, resolved)

\* C5, amended: a failed retrieval omits that image alone, the other
\* candidates are processed, nothing is thrown, and the body keeps the
\* reference to the failed image unless a resolved image of the message has
\* the same identifier up to case, whose URI then replaces it
C5_FailedImageReferenceKeptUnlessShared ==
    /\ FailureSkipsOneImage
    /\ \A i \in 1..Len(mbTasks) :
           (mbTasks[i].state = "fulfilled" /\ CandidatesOf(mbTasks[i].email.id) # <<>>) =>
               LET candidates == CandidatesOf(mbTasks[i].email.id)
                   failed == FailedOf(candidates, mbTasks[i].replies)
                   resolved == ResolvedOf(candidates, mbTasks[i].replies)
               IN  /\ mbTasks[i].email.body = BodyOf(mbTasks[i].email.id, resolved)
                   /\ \A k \in 1..Len(failed) :
                          (\A r \in 1..Len(resolved) :
                               ~SameIgnoringCase(failed[k].contentId, resolved[r].contentId))
                              => HasReference(mbTasks[i].email.body, failed[k].contentId)

\* the fetch of the first image throws, the second succeeds: the message is
\* returned with the second image alone and the first reference untouched
C5_Witness ==
    /\ mbPc = "fulfilled"
    /\ mbRaw = <<rawTwoImages>>
    /\ mbTasks[1].replies = <<"threw", "ok">>
    /\ mbEmails[1].inlineImages = <<ImageOf([contentId |-> <<"b">>, fetched |-> TRUE])>>
    /\ mbEmails[1].body =
           <<"<","i","m","g"," ","s","r","c","=","\"","c","i","d",":","a","\"",">">>
               \o <<"<","i","m","g"," ","s","r","c","=","\"">>
               \o UriOf(ImageOf([contentId |-> <<"b">>, fetched |-> TRUE])) \o <<"\"",">">>

-----------------------------------------------------------------------------
(* Properties of the last day of the month *)

\* RRULE:FREQ=MONTHLY;BYMONTHDAY=-1
sLastDayRule ==
    sRRULE \o clause(sFREQ, sMONTHLY) \o <<";">> \o clause(sBYMONTHDAY, <<"-","1">>)

\* the text "last day" and the number -1 as they appear in a rendering
sSaishuubi == sSaishuu \o <<kNichi>>
sMinusOne == <<"-","1">>

\* a monthly rule whose only day selection is the day-of-month -1
MonthlyLastDay(rule) ==
    /\ rule # Null
    /\ rule.freq = sMONTHLY
    /\ Has(rule, "byMonthDay")
    /\ rule.byMonthDay = <<-1>>
    /\ ~Has(rule, "byDay")

\* a rendering that names the last day and never the number -1
RendersLastDay(text) == Contains(text, sSaishuubi) /\ ~Contains(text, sMinusOne)

\* C11 as stated: RRULE:FREQ=MONTHLY;BYMONTHDAY=-1 is rebuilt unchanged from
\* its parsed rule, and for a monthly rule on day-of-month -1 both
\* getRecurrenceLabel and rruleToJapanese render the day as "last day", never
\* as the number -1
C11_LastDayRoundTripAndRendering ==
    /\ (rrPc = "built" /\ rrIn = sLastDayRule) => rrText = rrIn
    /\ (rrPc = "labelled" /\ MonthlyLastDay(parseRRule(rrIn))) => RendersLastDay(rrLabel)
    /\ (rrPc = "described" /\ MonthlyLastDay(parseRRule(rrIn))) => RendersLastDay(rrDesc)

\* the part of C11 the code satisfies: the round trip, and the description
\* of rruleToJapanese
C11_LastDayRoundTripAndDescription ==
    /\ (rrPc = "built" /\ rrIn = sLastDayRule) => rrText = rrIn
    /\ (rrPc = "described" /\ MonthlyLastDay(parseRRule(rrIn))) => RendersLastDay(rrDesc)

\* what getRecurrenceLabel returns for the rule: every-month, "-1", day
C11_LabelShowsMinusOne ==
    (rrPc = "labelled" /\ rrIn = sLastDayRule) =>
        rrLabel = <<kMai, kGetsu>> \o sMinusOne \o <<kNichi>>

\* getRecurrenceLabel has been applied to RRULE:FREQ=MONTHLY;BYMONTHDAY=-1
C11_Witness ==
    /\ rrPc = "labelled"
    /\ rrIn = sLastDayRule
    /\ Contains(rrLabel, sMinusOne)

-----------------------------------------------------------------------------
(* Properties of convertTextToHtml *)

\* t occurs in s at position i
OccursAt(s, i, t) ==
    /\ i + Len(t) - 1 <= Len(s)
    /\ \A k \in 1..Len(t) : s[i + k - 1] = t[k]

\* the character an entity of the escaping step stands for
EntityChar(e) ==
    CASE e = sAmp -> "&" [] e = sLt -> "<" [] e = sGt -> ">"
      [] e = sQuot -> "\"" [] e = sApos -> "'"

Entities == {sAmp, sLt, sGt, sQuot, sApos}

\* the entity that occurs in s at position i, <<>> without one
EntityAt(s, i) ==
    IF \E e \in Entities : OccursAt(s, i, e)
    THEN CHOOSE e \in Entities : OccursAt(s, i, e)
    ELSE <<>>

sAnchorOpen == <<"<","a"," ","h","r","e","f","=","\"">>

\* the URL of the anchor element that occurs in s at position i: the text
\* between the quotes of its href, when the element is exactly
\* <a href="URL">URL</a>; <<>> without one
AnchorUrlAt(s, i) ==
    IF ~OccursAt(s, i, sAnchorOpen) THEN <<>>
    ELSE LET q == indexOfFrom(s, "\"", i + Len(sAnchorOpen))
             url == IF q = 0 THEN <<>> ELSE SubSeq(s, i + Len(sAnchorOpen), q - 1)
         IN  IF url # <<>> /\ OccursAt(s, i, anchor(url)) THEN url ELSE <<>>

\* Reads s from position i as a sequence of plain characters, entities of the
\* escaping step and, when markup is allowed, <br> elements and anchor
\* elements around such text.  The result tells whether every '<', '>' and
\* '&' of s is part of one of these, and gives the text they stand for, a
\* <br> standing for one line feed.
RECURSIVE ReadHtml(_, _, _)
ReadHtml(s, i, markup) ==
    IF i > Len(s) THEN [ok |-> TRUE, text |-> <<>>]
    ELSE IF s[i] \notin {"<", ">", "&"}
    THEN LET rest == ReadHtml(s, i + 1, markup)
         IN  [ok |-> rest.ok, text |-> <<s[i]>> \o rest.text]
    ELSE IF EntityAt(s, i) # <<>>
    THEN LET e == EntityAt(s, i)
             rest == ReadHtml(s, i + Len(e), markup)
         IN  [ok |-> rest.ok, text |-> <<EntityChar(e)>> \o rest.text]
    ELSE IF markup /\ OccursAt(s, i, sBr)
    THEN LET rest == ReadHtml(s, i + Len(sBr), markup)
         IN  [ok |-> rest.ok, text |-> <<"\n">> \o rest.text]
    ELSE IF markup /\ AnchorUrlAt(s, i) # <<>>
    THEN LET url == AnchorUrlAt(s, i)
             inner == ReadHtml(url, 1, FALSE)
             rest == ReadHtml(s, i + Len(anchor(url)), markup)
         IN  [ok |-> inner.ok /\ rest.ok, text |-> inner.text \o rest.text]
    ELSE [ok |-> FALSE, text |-> <<>>]

\* replaceCRLF with a line feed in place of <br>
RECURSIVE crlfToLineFeed(_)
crlfToLineFeed(s) ==
    IF s = <<>> THEN <<>>
    ELSE IF Len(s) >= 2 /\ s[1] = "\r" /\ s[2] = "\n"
    THEN <<"\n">> \o crlfToLineFeed(SubSeq(s, 3, Len(s)))
    ELSE <<Head(s)>> \o crlfToLineFeed(Tail(s))

\* text with each of \r\n, \r and \n written as one line feed
LineFeedsOnly(text) == replaceChar(crlfToLineFeed(text), "\r", <<"\n">>)

\* C12: every '<', '>' and '&' of the output of convertTextToHtml belongs to
\* an inserted anchor element, to an inserted <br> or to an entity written by
\* the escaping step, and none stems un-escaped from the input: read back,
\* the output gives the input text, line breaks apart
C12_OnlyInsertedMarkupUnescaped ==
    (txPc = "html") =>
        LET read == ReadHtml(txHtml, 1, TRUE)
        IN  read.ok /\ read.text = LineFeedsOnly(txText)

\* convertTextToHtml has been applied to a text with a URL that carries an
\* ampersand, a line break and text that looks like markup
C12_Witness ==
    /\ txPc = "html"
    /\ txText = sHttp \o <<"x">> \o <<"?","q","=","1","&","r">> \o sBr
    /\ Contains(txHtml, sAnchorOpen)
    /\ Contains(txHtml, sLt)

-----------------------------------------------------------------------------
(* Properties of rruleToUIState *)

\* the BYDAY entries of a rule, none when the clause is absent
ByDayOf(rule) == IF Has(rule, "byDay") THEN rule.byDay ELSE <<>>

\* the day-of-month entries of a rule, none when the clause is absent
ByMonthDayOf(rule) == IF Has(rule, "byMonthDay") THEN rule.byMonthDay ELSE <<>>

\* the positions of the ordinal-prefixed entries of a BYDAY list
OrdinalPositions(days) == {i \in 1..Len(days) : IsOrdinalDay(days[i])}

\* the first ordinal-prefixed entry of a BYDAY list with ordinal entries
FirstOrdinalDay(days) ==
    days[CHOOSE i \in OrdinalPositions(days) : \A j \in OrdinalPositions(days) : i <= j]

\* frequency, interval and weekly days of the state of a parseable rule
StateFollowsRule(rule, state) ==
    /\ state.enabled
    /\ state.freq = rule.freq
    /\ ~Has(rule, "interval") => state.interval = 1
    /\ (Has(rule, "interval") /\ rule.interval >= 1) => state.interval = rule.interval
    /\ state.weeklyDays = SelectSeq(ByDayOf(rule), IsSimpleDay)

\* ordinal and weekday of the state are those of the first ordinal entry
StateFollowsOrdinalDay(rule, state) ==
    LET d == FirstOrdinalDay(ByDayOf(rule))
    IN  /\ state.monthlyWeekOrdinal = parseInt(SubSeq(d, 1, Len(d) - 2))
        /\ state.monthlyWeekDay = SubSeq(d, Len(d) - 1, Len(d))

\* C13 as stated: for a parseable rule string rruleToUIState returns
\* enabled=true with the rule's frequency and interval (1 when absent) and
\* the bare BYDAY entries as weeklyDays in rule order; the first ordinal
\* BYDAY entry sets monthlyWeekOrdinal and monthlyWeekDay and forces
\* monthlyType=dayOfWeek; BYMONTHDAY sets monthlyType=dayOfMonth with its
\* first value only when no ordinal entry was found
C13_OrdinalDayForcesDayOfWeek ==
    (rrPc = "ui" /\ parseRRule(rrIn) # Null) =>
        LET rule == parseRRule(rrIn)
            ordinal == OrdinalPositions(ByDayOf(rule)) # {}
        IN  /\ StateFollowsRule(rule, rrUi)
            /\ ordinal => /\ StateFollowsOrdinalDay(rule, rrUi)
                          /\ rrUi.monthlyType = "dayOfWeek"
            /\ (~ordinal /\ ByMonthDayOf(rule) # <<>>) =>
                  /\ rrUi.monthlyType = "dayOfMonth"
                  /\ rrUi.monthlyDayOfMonth = rule.byMonthDay[1]

\* what the code does: BYMONTHDAY sets monthlyType=dayOfMonth and the day
\* whether or not an ordinal entry was found; the ordinal entry decides the
\* type only in a rule without BYMONTHDAY
C13_MonthDayOverridesOrdinalDay ==
    (rrPc = "ui" /\ parseRRule(rrIn) # Null) =>
        LET rule == parseRRule(rrIn)
            ordinal == OrdinalPositions(ByDayOf(rule)) # {}
        IN  /\ StateFollowsRule(rule, rrUi)
            /\ ordinal => StateFollowsOrdinalDay(rule, rrUi)
            /\ (ordinal /\ ByMonthDayOf(rule) = <<>>) => rrUi.monthlyType = "dayOfWeek"
            /\ ByMonthDayOf(rule) # <<>> =>
                  /\ rrUi.monthlyType = "dayOfMonth"
                  /\ rrUi.monthlyDayOfMonth = rule.byMonthDay[1]

\* rruleToUIState has been applied to a monthly rule with a day of the month
\* and an ordinal weekday
C13_Witness ==
    /\ rrPc = "ui"
    /\ rrIn = clause(sFREQ, sMONTHLY) \o <<";">> \o clause(sBYMONTHDAY, <<"1","5">>)
                \o <<";">> \o clause(sBYDAY, join(<<<<"2">> \o sTU, sSA>>, <<",">>))
    /\ rrUi.monthlyType = "dayOfMonth"
    /\ rrUi.monthlyWeekOrdinal = 2
    /\ rrUi.weeklyDays = <<sSA>>

-----------------------------------------------------------------------------
(* Properties of uiStateToRRule *)

\* the clauses of a rule string: the pieces between the semicolons of the
\* text after RRULE:
ClausesOfText(text) == split(SubSeq(text, Len(sRRULE) + 1, Len(text)), ";")

\* the values of the clauses of a rule string that carry the given key
ValuesOfKey(text, key) ==
    LET clauses == ClausesOfText(text)
    IN  {SubSeq(clauses[i], Len(key) + 2, Len(clauses[i])) :
            i \in {j \in 1..Len(clauses) : startsWith(clauses[j], key \o <<"=">>)}}

\* a calendar date without its separators
WithoutSeparators(date) == SelectSeq(date, LAMBDA c : c # "-")

\* C14 as stated: the string of an enabled state has a COUNT clause equal to
\* endCount exactly when endType=count, an UNTIL clause equal to endUntil
\* without its separators exactly when endType=until, neither clause when
\* endType=never, and never both clauses
C14_EndClauseFollowsEndType ==
    (rrPc = "saved" /\ rrIn.enabled) =>
        LET counts == ValuesOfKey(rrText, sCOUNT)
            untils == ValuesOfKey(rrText, sUNTIL)
        IN  /\ counts = IF rrIn.endType = "count"
                        THEN {numToString(rrIn.endCount)} ELSE {}
            /\ untils = IF rrIn.endType = "until"
                        THEN {WithoutSeparators(rrIn.endUntil)} ELSE {}
            /\ counts = {} \/ untils = {}

\* C14 amended: the COUNT clause is written exactly when endType=count and
\* endCount is not zero, the UNTIL clause exactly when endType=until and
\* endUntil is not empty; a state with endType=count and a zero count, or
\* with endType=until and no date, gives neither clause
C14_EndClauseFollowsEndTypeAndDate ==
    (rrPc = "saved" /\ rrIn.enabled) =>
        LET counts == ValuesOfKey(rrText, sCOUNT)
            untils == ValuesOfKey(rrText, sUNTIL)
        IN  /\ counts = IF rrIn.endType = "count" /\ rrIn.endCount # 0
                        THEN {numToString(rrIn.endCount)} ELSE {}
            /\ untils = IF rrIn.endType = "until" /\ rrIn.endUntil # <<>>
                        THEN {WithoutSeparators(rrIn.endUntil)} ELSE {}
            /\ counts = {} \/ untils = {}

\* uiStateToRRule has been applied to an enabled state that ends on a date
C14_Witness ==
    /\ rrPc = "saved"
    /\ rrIn.enabled
    /\ rrIn.endType = "until"
    /\ rrIn.endUntil = sDate
    /\ ValuesOfKey(rrText, sUNTIL) = {s20251231}

-----------------------------------------------------------------------------
(* Properties of extractAttachments and extractInlineImageParts *)

\* a part whose body carries an attachmentId and whose filename is not empty
IsAttachmentPart(part) ==
    /\ Has(part.body, "attachmentId")
    /\ part.body.attachmentId # <<>>
    /\ part.filename # <<>>

\* the descriptor of an attachment part
DescriptorOf(part) ==
    [attachmentId |-> part.body.attachmentId,
     filename |-> part.filename,
     mimeType |-> part.mimeType,
     size |-> part.body.size]

DescriptorsOf(parts) ==
    LET files == SelectSeq(parts, IsAttachmentPart)
    IN  [i \in 1..Len(files) |-> DescriptorOf(files[i])]

\* C15 as stated: extractAttachments returns, in depth-first pre-order, one
\* descriptor for every part of the payload tree, the root payload included,
\* whose body carries an attachmentId and whose filename is not empty, and
\* nothing else; parts that share an attachmentId each get their own entry
C15_AttachmentsOfWholeTree ==
    (exPc = "attachments") => exAttachments = DescriptorsOf(PayloadInOrder(exPayload))

\* what the code does: the descriptors of the parts below the root, in
\* depth-first pre-order, duplicates kept; the root payload is not looked at
C15_AttachmentsBelowRoot ==
    (exPc = "attachments") =>
        exAttachments = DescriptorsOf(Tail(PayloadInOrder(exPayload)))

\* extractAttachments has been applied to a message that consists of one
\* file, and has returned nothing
C15_Witness ==
    /\ exPc = "attachments"
    /\ IsAttachmentPart(exPayload)
    /\ ~Has(exPayload, "parts")
    /\ exAttachments = <<>>

\* extractAttachments has been applied to a tree with two parts that share an
\* attachmentId, one nested in the other, and has returned both
C15_WitnessSharedId ==
    /\ exPc = "attachments"
    /\ Len(exAttachments) = 2
    /\ exAttachments[1].attachmentId = exAttachments[2].attachmentId
    /\ Has(exPayload.parts[1], "parts")


\* a part with an image MIME type and a header named Content-ID, whatever the
\* case of the name
IsInlineImagePart(part) ==
    /\ startsWith(part.mimeType, sImagePrefix)
    /\ \E i \in 1..Len(part.headers) : toUpperCase(part.headers[i].name) = toUpperCase(sContentIdHeader)

\* the value of the first Content-ID header of an inline image part
ContentIdValueOf(part) ==
    LET i == CHOOSE k \in 1..Len(part.headers) :
                /\ toUpperCase(part.headers[k].name) = toUpperCase(sContentIdHeader)
                /\ \A j \in 1..(k - 1) :
                      toUpperCase(part.headers[j].name) # toUpperCase(sContentIdHeader)
    IN  part.headers[i].value

\* a header value with one wrapping pair of angle brackets removed
Unwrapped(value) ==
    IF Len(value) >= 2 /\ value[1] = "<" /\ value[Len(value)] = ">"
    THEN [i \in 1..(Len(value) - 2) |-> value[i + 1]]
    ELSE value

\* base64url data in the standard base64 alphabet
StandardBase64(data) ==
    [i \in 1..Len(data) |-> CASE data[i] = "-" -> "+" [] data[i] = "_" -> "/" [] OTHER -> data[i]]

\* the candidate of an inline image part: its data when it has some, its
\* attachmentId otherwise
CandidateOf(part) ==
    IF Has(part.body, "data") /\ part.body.data # <<>>
    THEN [contentId |-> Unwrapped(ContentIdValueOf(part)), mimeType |-> part.mimeType,
          data |-> StandardBase64(part.body.data)]
    ELSE [contentId |-> Unwrapped(ContentIdValueOf(part)), mimeType |-> part.mimeType,
          attachmentId |-> IF Has(part.body, "attachmentId") THEN part.body.attachmentId
                           ELSE <<>>]

\* the content identifiers of a list of candidates
ContentIdsOf(candidates) == [i \in 1..Len(candidates) |-> candidates[i].contentId]

\* C16 as stated: extractInlineImageParts returns one candidate for every
\* part of the payload tree, at any depth, whose mimeType starts with image/
\* and that has a Content-ID header under case-insensitive comparison; its
\* contentId is the header value with one wrapping <...> pair removed, and it
\* carries the part's inline data when the part has some and the
\* attachmentId otherwise
C16_CandidateForEveryImagePart ==
    (exPc = "images") =>
        LET images == SelectSeq(PayloadInOrder(exPayload), IsInlineImagePart)
        IN  /\ Len(exImages) = Len(images)
            /\ \A i \in 1..Len(images) :
                  /\ exImages[i].contentId = Unwrapped(ContentIdValueOf(images[i]))
                  /\ exImages[i].mimeType = images[i].mimeType
                  /\ IF Has(images[i].body, "data") /\ images[i].body.data # <<>>
                     THEN /\ Has(exImages[i], "data")
                          /\ exImages[i].data = StandardBase64(images[i].body.data)
                     ELSE /\ Has(exImages[i], "attachmentId")
                          /\ Has(images[i].body, "attachmentId")
                             => exImages[i].attachmentId = images[i].body.attachmentId

\* an inline image part that has data or an attachmentId
IsResolvableImagePart(part) ==
    /\ IsInlineImagePart(part)
    /\ \/ Has(part.body, "data") /\ part.body.data # <<>>
       \/ Has(part.body, "attachmentId") /\ part.body.attachmentId # <<>>

\* what the code does: the candidates of the image parts below the root that
\* have data or an attachmentId; the root payload is not looked at, and an
\* image part with neither gets no candidate
C16_CandidatesBelowRootWithSource ==
    (exPc = "images") =>
        LET images == SelectSeq(Tail(PayloadInOrder(exPayload)), IsResolvableImagePart)
        IN  exImages = [i \in 1..Len(images) |-> CandidateOf(images[i])]

\* extractInlineImageParts has been applied to a tree whose image part has a
\* Content-ID header and neither data nor attachmentId, below a container root
C16_Witness ==
    /\ exPc = "images"
    /\ exPayload.mimeType = sMultipart
    /\ Has(exPayload, "parts")
    /\ Len(exPayload.parts) = 1
    /\ IsInlineImagePart(exPayload.parts[1])
    /\ ~IsResolvableImagePart(exPayload.parts[1])
    /\ exImages = <<>>

\* extractInlineImageParts has been applied to a tree with a fetched and an
\* embedded image, and has returned both candidates
C16_WitnessBothSources ==
    /\ exPc = "images"
    /\ Len(exImages) = 2
    /\ ContentIdsOf(exImages) = << <<"b">>, <<"<","c",">">> >>
    /\ Has(exImages[1], "attachmentId")
    /\ exImages[2].data = <<"P","j","4","+">>

-----------------------------------------------------------------------------
(* Properties of the concurrent normalization of a batch *)

\* the images of one message normalized alone, given the answers of its
\* fetches in the order of its candidates: a candidate with data needs no
\* fetch, the j-th candidate without data is answered by replies[j], and only
\* an OK answer gives an image
SoloImages(parts, replies) ==
    LET CarriesData(k) == Has(parts[k], "data") /\ parts[k].data # <<>>
        fetched == {k \in 1..Len(parts) : ~CarriesData(k)}
        FetchRank(k) == Cardinality({j \in fetched : j <= k})
        GivesImage(k) == CarriesData(k) \/ replies[FetchRank(k)] = "ok"
        kept == SelectSeq([k \in 1..Len(parts) |-> k], LAMBDA k : GivesImage(k))
    IN  [i \in 1..Len(kept) |->
            [contentId |-> parts[kept[i]].contentId,
             mimeType |-> parts[kept[i]].mimeType,
             data |-> IF CarriesData(kept[i]) THEN parts[kept[i]].data
                      ELSE StandardBase64(dataImage)]]

\* the record of one message normalized alone under the given answers
SoloRecord(raw, replies) ==
    LET formatted == formatEmailMessage(raw).value
        images == SoloImages(formatted.inlineImageParts, replies)
    IN  IF formatted.inlineImageParts = <<>> THEN formatted.email
        ELSE [formatted.email EXCEPT
                 !.body = IF images = <<>> THEN @ ELSE replaceCidWithDataUri(@, images),
                 !.inlineImages = images]

\* C17: when the messages of a batch are normalized concurrently, under every
\* interleaving of their image fetches each output record is the record of
\* that message normalized alone under the answers its own fetches got, and
\* the output list keeps the order of the input messages
C17_BatchRecordsEqualSoloRecords ==
    (mbPc = "fulfilled") =>
        LET complete == SelectSeq(mbRaw, IsComplete)
        IN  /\ Len(mbEmails) = Len(complete)
            /\ \A i \in 1..Len(complete) :
                  mbEmails[i] = SoloRecord(complete[i], mbTasks[i].replies)

\* the fetch of the second message has been answered between the two fetches
\* of the first one
C17_WitnessInterleaved ==
    /\ mbPc = "processing"
    /\ mbRaw = <<rawTwoImages, rawTwoCases>>
    /\ mbTasks[1].state = "awaiting"
    /\ mbTasks[1].replies = <<"ok">>
    /\ mbTasks[2].state = "fulfilled"
    /\ mbTasks[2].replies = <<"ok">>

\* a batch of two messages with fetched images has been normalized, one fetch
\* of the first message failing
C17_Witness ==
    /\ mbPc = "fulfilled"
    /\ mbRaw = <<rawTwoImages, rawTwoCases>>
    /\ mbTasks[1].replies = <<"threw", "ok">>
    /\ mbTasks[2].replies = <<"ok">>
    /\ IdsOf(mbEmails) = << <<"m","4">>, <<"m","5">> >>
    /\ Len(mbEmails[1].inlineImages) = 1
    /\ Len(mbEmails[2].inlineImages) = 2

-----------------------------------------------------------------------------
(* Properties of the frequency of a parsed rule *)

sHOURLY == <<"H","O","U","R","L","Y">>

\* C18 as stated: every rule parseRRule returns has a frequency, which is one
\* of DAILY, WEEKLY, MONTHLY, YEARLY; for any other input it returns no rule
C18_FrequencyIsOneOfFour ==
    (rrPc = "parsed") =>
        /\ rrRule # Null => (Has(rrRule, "freq") /\ rrRule.freq \in Frequencies)
        /\ NoFrequencyClause(rrIn) => rrRule = Null

\* what the code does: every rule returned has a frequency, which is the
\* value of a FREQ clause of the input in upper case, whatever that value;
\* an input without such a clause gives no rule
C18_FrequencyIsSomeClauseValue ==
    (rrPc = "parsed") =>
        /\ rrRule # Null =>
              /\ Has(rrRule, "freq")
              /\ \E v \in ValuesOfKey(sRRULE \o toUpperCase(stripPrefix(rrIn)), sFREQ) :
                    v # <<>> /\ rrRule.freq = v
        /\ NoFrequencyClause(rrIn) <=> rrRule = Null

\* parseRRule has been applied to FREQ=HOURLY and has returned a rule
C18_Witness ==
    /\ rrPc = "parsed"
    /\ rrIn = clause(sFREQ, sHOURLY)
    /\ rrRule # Null
    /\ rrRule.freq = sHOURLY

-----------------------------------------------------------------------------
(* Properties of the clause order of buildRRule *)

\* the fixed order of the clauses
ClauseOrder ==
    <<sFREQ, sINTERVAL, sCOUNT, sUNTIL, sBYDAY, sBYMONTHDAY, sBYMONTH, sBYSETPOS, sWKST>>

\* the key of a clause: the text before its first '='
KeyOfClause(part) ==
    LET i == indexOfFrom(part, "=", 1)
    IN  IF i = 0 THEN part ELSE SubSeq(part, 1, i - 1)

\* the keys of the clauses of a rule string, in the order of the string
KeysOfText(text) ==
    LET clauses == ClausesOfText(text)
    IN  [i \in 1..Len(clauses) |-> KeyOfClause(clauses[i])]

\* the place of a key in the fixed order, 0 for a key that is not in it
PlaceOf(key) ==
    IF \E i \in 1..Len(ClauseOrder) : ClauseOrder[i] = key
    THEN CHOOSE i \in 1..Len(ClauseOrder) : ClauseOrder[i] = key
    ELSE 0

\* the keys of the BY* lists of a rule that are not empty
KeysOfLists(rule) ==
    (IF Has(rule, "byDay") /\ rule.byDay # <<>> THEN {sBYDAY} ELSE {})
      \cup (IF Has(rule, "byMonthDay") /\ rule.byMonthDay # <<>> THEN {sBYMONTHDAY} ELSE {})
      \cup (IF Has(rule, "byMonth") /\ rule.byMonth # <<>> THEN {sBYMONTH} ELSE {})
      \cup (IF Has(rule, "bySetPos") /\ rule.bySetPos # <<>> THEN {sBYSETPOS} ELSE {})

\* the keys a rule calls for when COUNT, UNTIL and WKST are written whenever
\* the field is present
KeysOfPresentFields(rule) ==
    {sFREQ} \cup KeysOfLists(rule)
      \cup (IF Has(rule, "interval") /\ rule.interval > 1 THEN {sINTERVAL} ELSE {})
      \cup (IF Has(rule, "count") THEN {sCOUNT} ELSE {})
      \cup (IF Has(rule, "until") THEN {sUNTIL} ELSE {})
      \cup (IF Has(rule, "wkst") THEN {sWKST} ELSE {})

\* the keys a rule calls for when COUNT is written for a count that is a
\* number other than 0, UNTIL and WKST for a string that is not empty
KeysOfTruthyFields(rule) ==
    {sFREQ} \cup KeysOfLists(rule)
      \cup (IF Has(rule, "interval") /\ rule.interval > 1 THEN {sINTERVAL} ELSE {})
      \cup (IF Has(rule, "count") /\ rule.count # 0 /\ ~IsNaN(rule.count) THEN {sCOUNT} ELSE {})
      \cup (IF Has(rule, "until") /\ rule.until # <<>> THEN {sUNTIL} ELSE {})
      \cup (IF Has(rule, "wkst") /\ rule.wkst # <<>> THEN {sWKST} ELSE {})

\* the clauses of a rule string come in the fixed order, FREQ first, each at
\* most once
InFixedOrder(text) ==
    LET keys == KeysOfText(text)
    IN  /\ startsWith(text, sRRULE)
        /\ keys[1] = sFREQ
        /\ \A i \in 1..Len(keys) : PlaceOf(keys[i]) > 0
        /\ \A i \in 1..(Len(keys) - 1) : PlaceOf(keys[i]) < PlaceOf(keys[i + 1])

\* C19 as stated: the clauses of buildRRule(rule) come in the fixed order
\* FREQ, INTERVAL, COUNT, UNTIL, BYDAY, BYMONTHDAY, BYMONTH, BYSETPOS, WKST:
\* FREQ always, INTERVAL only for an interval above 1, COUNT and UNTIL each
\* when present (both when both are), each BY* clause only for a list that is
\* not empty, WKST only when present
C19_ClausesInFixedOrder ==
    (rrPc = "built") =>
        /\ InFixedOrder(rrText)
        /\ Range(KeysOfText(rrText)) = KeysOfPresentFields(rrRule)

\* C19 amended: the same order and the same conditions, except that COUNT is
\* written only for a count that is a number other than 0 (and UNTIL and WKST
\* only for a string that is not empty): a count of 0 or NaN, as parseRRule
\* returns for COUNT=0 and COUNT=x, gives no COUNT clause
C19_ClausesInFixedOrderWhenTruthy ==
    (rrPc = "built") =>
        /\ InFixedOrder(rrText)
        /\ Range(KeysOfText(rrText)) = KeysOfTruthyFields(rrRule)

\* buildRRule has been applied to a parsed rule with a count and an end date,
\* and has written both
C19_Witness ==
    /\ rrPc = "built"
    /\ Has(rrRule, "count") /\ Has(rrRule, "until")
    /\ KeysOfText(rrText) = <<sFREQ, sCOUNT, sUNTIL>>

\* buildRRule has been applied to a parsed rule with a count of 0
C19_WitnessZeroCount ==
    /\ rrPc = "built"
    /\ Has(rrRule, "count") /\ rrRule.count = 0
    /\ KeysOfText(rrText) = <<sFREQ>>

-----------------------------------------------------------------------------
(* Properties of the prefix, the key case and the unknown keys of parseRRule *)

\* the length of the RRULE: prefix of a rule string, in whatever letter case,
\* 0 without one
PrefixLength(s) ==
    IF /\ Len(s) >= 6
       /\ s[1] \in {"R", "r"} /\ s[2] \in {"R", "r"} /\ s[3] \in {"U", "u"}
       /\ s[4] \in {"L", "l"} /\ s[5] \in {"E", "e"} /\ s[6] = ":"
    THEN 6 ELSE 0

\* the clauses of a rule string: the pieces between the semicolons of the
\* text after the prefix
ClausesAfterPrefix(s) == split(SubSeq(s, PrefixLength(s) + 1, Len(s)), ";")

\* a clause whose key, in upper case, is none of the nine keys
HasUnknownKey(part) == PlaceOf(toUpperCase(KeyOfClause(part))) = 0

\* a clause with its key in upper case
WithUpperCaseKey(part) ==
    LET n == Len(KeyOfClause(part))
    IN  [i \in 1..Len(part) |-> IF i <= n THEN toUpperCaseChar(part[i]) ELSE part[i]]

\* a rule string without prefix, without its clauses of unknown key, and with
\* the keys of the others in upper case
PlainForm(s) ==
    LET known == SelectSeq(ClausesAfterPrefix(s), LAMBDA part : ~HasUnknownKey(part))
    IN  join([i \in 1..Len(known) |-> WithUpperCaseKey(known[i])], <<";">>)

\* a clause with a key of RFC 5545 that parseRRule does not know
sByHourClause == clause(<<"B","Y","H","O","U","R">>, <<"9">>)

\* the rule string with one more clause, placed before the clause number i
\* (after the last clause for i beyond the last)
WithClauseAt(s, i, part) ==
    LET clauses == ClausesAfterPrefix(s)
        more == SubSeq(clauses, 1, i - 1) \o <<part>> \o SubSeq(clauses, i, Len(clauses))
    IN  SubSeq(s, 1, PrefixLength(s)) \o join(more, <<";">>)

\* C20: parseRRule strips an optional RRULE: prefix written in any letter
\* case, dispatches clause keys case-insensitively and ignores unknown keys:
\* the parsed rule is that of the string without prefix, with upper-case keys
\* and without its clauses of unknown key, and a clause with an unknown key
\* added at any position does not change it
C20_PrefixCaseAndUnknownKeysIgnored ==
    (rrPc = "parsed") =>
        /\ rrRule = parseRRule(PlainForm(rrIn))
        /\ \A i \in 1..(Len(ClausesAfterPrefix(rrIn)) + 1) :
              parseRRule(WithClauseAt(rrIn, i, sByHourClause)) = rrRule

\* parseRRule has been applied to a string with a prefix in mixed case, a
\* clause with an unknown key before a frequency clause in lower case
C20_Witness ==
    /\ rrPc = "parsed"
    /\ rrIn = <<"R","r","u","L","e",":">> \o clause(<<"X","-","F","O","O">>, <<"1">>) \o <<";">>
                 \o clause(toLowerCase(sFREQ), toLowerCase(sWEEKLY))
    /\ rrRule = [freq |-> sWEEKLY]

-----------------------------------------------------------------------------
(* Properties of the body candidates of extractBody *)

\* the first body data of a MIME type in the order root, then every part
\* before its children and before its later siblings; '' when there is none
FirstDataOfType(payload, mimeType) ==
    LET data == DataOfType(payload, mimeType)
    IN  IF data # <<>> THEN data[1] ELSE <<>>

\* C21: the HTML candidate of extractBody is the data of the first text/html
\* part with body data in depth-first pre-order, the root first, and the plain
\* candidate likewise for text/plain, so that no part with data that comes
\* later in that order replaces a candidate
C21_FirstCandidateInPreOrderWins ==
    exPc = "body" =>
        /\ exFound.htmlBody = FirstDataOfType(exPayload, sTextHtml)
        /\ exFound.textBody = FirstDataOfType(exPayload, sTextPlain)

\* an HTML part nested below the first part comes before the HTML part that
\* is the second part of the root, and its data is the candidate
C21_Witness ==
    /\ exPc = "body"
    /\ Has(exPayload, "parts")
    /\ Len(exPayload.parts) = 2
    /\ exPayload.parts[1].mimeType = sMultipart
    /\ Has(exPayload.parts[1], "parts")
    /\ exPayload.parts[1].parts[1].mimeType = sTextHtml
    /\ bodyData(exPayload.parts[1].parts[1]) = dataHtmlBad
    /\ exPayload.parts[2].mimeType = sTextHtml
    /\ bodyData(exPayload.parts[2]) = dataHtml
    /\ exFound.htmlBody = dataHtmlBad

\* the root is an HTML part with data and a part below it is another one: the
\* candidate is the data of the root
C21_WitnessRoot ==
    /\ exPc = "body"
    /\ exPayload.mimeType = sTextHtml
    /\ bodyData(exPayload) = dataHtml
    /\ Has(exPayload, "parts")
    /\ exPayload.parts[1].mimeType = sTextHtml
    /\ bodyData(exPayload.parts[1]) = dataHtmlBad
    /\ exFound.htmlBody = dataHtml

-----------------------------------------------------------------------------
(* Properties of the list returned by fetchInlineImageData *)

\* the candidate carries embedded data
CarriesData(candidate) == Has(candidate, "data") /\ candidate.data # <<>>

\* the places in the candidate list of the candidates without embedded data
PlacesToFetch(candidates) == {k \in 1..Len(candidates) : ~CarriesData(candidates[k])}

\* the places of the candidates that carry data or whose fetch, the j-th
\* fetch being the one of the j-th candidate without data, was answered OK
PlacesKept(candidates, replies) ==
    {k \in 1..Len(candidates) :
        \/ CarriesData(candidates[k])
        \/ replies[Cardinality({j \in PlacesToFetch(candidates) : j <= k})] = "ok"}

\* images is made of the candidates at the given places, in their order, each
\* image with the identifier and type of its candidate, and a candidate with
\* embedded data as the image of exactly its three fields
IsOrderedSelection(images, candidates, places) ==
    /\ Len(images) = Cardinality(places)
    /\ \E at \in [1..Len(images) -> places] :
           /\ \A m, n \in 1..Len(images) : m < n => at[m] < at[n]
           /\ \A n \in 1..Len(images) :
                  /\ images[n].contentId = candidates[at[n]].contentId
                  /\ images[n].mimeType = candidates[at[n]].mimeType
                  /\ Has(images[n], "data")
                  /\ CarriesData(candidates[at[n]]) =>
                         images[n] = [contentId |-> candidates[at[n]].contentId,
                                      mimeType |-> candidates[at[n]].mimeType,
                                      data |-> candidates[at[n]].data]

\* C22: the list fetchInlineImageData returns is the subsequence of the
\* candidate list, in candidate order, of exactly the candidates that carried
\* embedded data or whose fetch succeeded; a candidate with embedded data is
\* passed through unchanged and no fetch is made for it
C22_ResolvedIsOrderedSubsequence ==
    \A i \in 1..Len(mbTasks) :
        (mbTasks[i].state = "fulfilled" /\ mbTasks[i].parts # <<>>) =>
            /\ Len(mbTasks[i].replies) = Cardinality(PlacesToFetch(mbTasks[i].parts))
            /\ IsOrderedSelection(mbTasks[i].images, mbTasks[i].parts,
                                  PlacesKept(mbTasks[i].parts, mbTasks[i].replies))

\* one message whose first fetch failed and whose second succeeded, and one
\* whose fetched image comes before an image with embedded data
C22_Witness ==
    /\ mbRaw = <<rawTwoImages, rawTwoCases>>
    /\ Len(mbTasks) = 2
    /\ mbTasks[1].state = "fulfilled"
    /\ mbTasks[1].replies = <<"notOk", "ok">>
    /\ Len(mbTasks[1].images) = 1
    /\ mbTasks[1].images[1].contentId = <<"b">>
    /\ mbTasks[2].state = "fulfilled"
    /\ mbTasks[2].replies = <<"ok">>
    /\ Len(mbTasks[2].images) = 2
    /\ mbTasks[2].images[1].contentId = <<"a">>
    /\ mbTasks[2].images[2] = [contentId |-> <<"A">>, mimeType |-> sImagePng,
                               data |-> <<"P","j","4","+">>]

-----------------------------------------------------------------------------
(* Properties of the source of an inline image *)

\* C23: every candidate extractInlineImageParts produces has exactly one of
\* embedded data and attachmentId set, and every image of the list
\* fetchInlineImageData returns has embedded data and no attachmentId
C23_OneSourceThenEmbeddedOnly ==
    \A i \in 1..Len(mbTasks) :
        /\ \A k \in 1..Len(mbTasks[i].parts) :
               Has(mbTasks[i].parts[k], "data") # Has(mbTasks[i].parts[k], "attachmentId")
        /\ mbTasks[i].state = "fulfilled" =>
               \A n \in 1..Len(mbTasks[i].images) :
                   /\ Has(mbTasks[i].images[n], "data")
                   /\ ~Has(mbTasks[i].images[n], "attachmentId")

\* a part with data and an attachmentId has given a candidate with data alone,
\* and a fetched candidate of another message has been resolved to its data
C23_Witness ==
    /\ mbRaw = <<rawBothSources, rawTwoCases>>
    /\ Len(mbTasks) = 2
    /\ mbTasks[1].state = "fulfilled"
    /\ mbTasks[1].parts = <<[contentId |-> <<"a">>, mimeType |-> sImagePng,
                             data |-> <<"P","j","4","+">>]>>
    /\ mbTasks[1].images = mbTasks[1].parts
    /\ mbTasks[2].state = "fulfilled"
    /\ Has(mbTasks[2].parts[1], "attachmentId")
    /\ ~Has(mbTasks[2].parts[1], "data")
    /\ mbTasks[2].replies = <<"ok">>
    /\ mbTasks[2].images[1] = [contentId |-> <<"a">>, mimeType |-> sImagePng,
                               data |-> <<"P","j","4","+">>]

-----------------------------------------------------------------------------
(* Properties of what replaceCidWithDataUri leaves alone *)

\* the body whose k-th piece is left as written when choice[k] is 0, and has
\* the URI of the image number choice[k] in place of its cid: value otherwise,
\* the attribute name and both quote characters staying as written
RECURSIVE BodyWithValues(_, _, _)
BodyWithValues(segments, images, choice) ==
    IF segments = <<>> THEN <<>>
    ELSE (IF Head(choice) = 0 THEN segmentText(Head(segments))
          ELSE Resolved(Head(segments), images[Head(choice)]))
         \o BodyWithValues(Tail(segments), images, Tail(choice))

\* C24: replaceCidWithDataUri changes only the cid: value of references: the
\* result is the body with the values of some references replaced by the URI
\* of an image of the list, the quote characters around each replaced value
\* and all other text being those of the input; a body without a reference
\* to an image of the list, an empty body and a body handed over with an
\* empty image list are returned unchanged
C24_OnlyReferenceValuesChange ==
    cidPc = "replaced" =>
        /\ \E choice \in [1..Len(cidSegments) -> 0..Len(cidImages)] :
               /\ \A k \in 1..Len(cidSegments) : choice[k] # 0 => cidSegments[k].ref
               /\ cidResult = BodyWithValues(cidSegments, cidImages, choice)
        /\ (\A k \in 1..Len(cidSegments), i \in 1..Len(cidImages) :
                cidSegments[k].ref => ~RefersTo(cidSegments[k].id, cidImages[i]))
               => cidResult = cidBody
        /\ cidBody = <<>> => cidResult = <<>>
        /\ cidImages = <<>> => cidResult = cidBody

\* a single-quoted reference after some text: the text and the single quotes
\* are kept, the value is the URI
C24_Witness ==
    /\ cidPc = "replaced"
    /\ Len(cidSegments) = 2
    /\ ~cidSegments[1].ref
    /\ cidSegments[2].ref
    /\ cidSegments[2].open = "'"
    /\ cidSegments[2].id = <<"a",".","b">>
    /\ Len(cidImages) = 2
    /\ cidImages[2].contentId = <<"a",".","b">>
    /\ cidResult = <<"<","i","m","g"," ","S","R","C","=","'">> \o UriOf(cidImages[2]) \o <<"'">>

\* a body whose only reference names no image of the list is returned as it is
C24_WitnessNoMatch ==
    /\ cidPc = "replaced"
    /\ Len(cidSegments) = 1
    /\ cidSegments[1].ref
    /\ cidSegments[1].id = <<"a","x","b">>
    /\ Len(cidImages) = 3
    /\ cidResult = cidBody

-----------------------------------------------------------------------------
(* Properties of the links of convertTextToHtml *)

WhitespaceChars == {" ", "\n", "\r", "\t"}

\* length of the longest prefix of s that holds no character of the set
RECURSIVE RunUpTo(_, _)
RunUpTo(s, stops) ==
    IF s # <<>> /\ Head(s) \notin stops THEN 1 + RunUpTo(Tail(s), stops) ELSE 0

\* the URLs of a plain text, from left to right: each starts with http:// or
\* https://, has at least one more character, and ends before the next
\* character of the set, or with the text
RECURSIVE UrlsOf(_, _)
UrlsOf(text, stops) ==
    IF text = <<>> THEN <<>>
    ELSE LET scheme == IF OccursAt(text, 1, sHttps) THEN Len(sHttps)
                       ELSE IF OccursAt(text, 1, sHttp) THEN Len(sHttp)
                       ELSE 0
             n == RunUpTo(SubSeq(text, scheme + 1, Len(text)), stops)
         IN  IF scheme > 0 /\ n > 0
             THEN <<SubSeq(text, 1, scheme + n)>>
                      \o UrlsOf(SubSeq(text, scheme + n + 1, Len(text)), stops)
             ELSE UrlsOf(Tail(text), stops)

\* the anchor elements of an HTML text from position i on, from left to
\* right, each given by the text its href stands for; an element counts when
\* it is exactly <a href="URL">URL</a>
RECURSIVE AnchorsFrom(_, _)
AnchorsFrom(html, i) ==
    IF i > Len(html) THEN <<>>
    ELSE IF AnchorUrlAt(html, i) # <<>>
    THEN LET url == AnchorUrlAt(html, i)
         IN  <<ReadHtml(url, 1, FALSE).text>> \o AnchorsFrom(html, i + Len(anchor(url)))
    ELSE AnchorsFrom(html, i + 1)

\* C25: every http:// or https:// URL of the plain text is wrapped in an
\* anchor whose href and text are that URL, the URL ending at the next
\* whitespace or quote character of the plain text
C25_UrlEndsAtWhitespaceOrQuote ==
    (txPc = "html") =>
        AnchorsFrom(txHtml, 1) = UrlsOf(txText, WhitespaceChars \cup {"\"", "'"})

\* what the code does: the linked URL ends at the next whitespace character
\* of the plain text and runs over quote characters, which are entities by
\* the time the URLs are looked for
C25_UrlEndsAtWhitespace ==
    (txPc = "html") => AnchorsFrom(txHtml, 1) = UrlsOf(txText, WhitespaceChars)

\* a URL followed by a double quote and a letter: the link holds all three
C25_Witness ==
    /\ txPc = "html"
    /\ txText = sHttp \o <<"x", "\"", "a">>
    /\ txHtml = anchor(sHttp \o <<"x">> \o sQuot \o <<"a">>)

\* a URL followed by a space ends there
C25_WitnessSpace ==
    /\ txPc = "html"
    /\ txText = sHttps \o <<"y", " ", "a">>
    /\ txHtml = anchor(sHttps \o <<"y">>) \o <<" ", "a">>

-----------------------------------------------------------------------------
(* Properties of the line breaks of convertTextToHtml *)

\* the places of a text where a line break starts: every carriage return,
\* and every line feed that does not follow a carriage return
LineBreaksOf(text) ==
    {i \in 1..Len(text) :
        \/ text[i] = "\r"
        \/ text[i] = "\n" /\ (i = 1 \/ text[i - 1] # "\r")}

\* the places of an HTML text where a <br> stands
BreakElementsOf(html) == {i \in 1..Len(html) : OccursAt(html, i, sBr)}

\* C26: convertTextToHtml gives exactly one <br> for every line break of the
\* input, a CR LF pair being one line break, a lone CR one and a lone LF one,
\* and leaves no CR and no LF in the output
C26_OneBreakElementPerLineBreak ==
    (txPc = "html") =>
        /\ Cardinality(BreakElementsOf(txHtml)) = Cardinality(LineBreaksOf(txText))
        /\ \A i \in 1..Len(txHtml) : txHtml[i] \notin {"\r", "\n"}

\* a CR LF pair followed by a lone CR gives two <br>, and the text <br> of
\* the input none
C26_Witness ==
    /\ txPc = "html"
    /\ txText = <<"\r", "\n", "\r">>
    /\ txHtml = sBr \o sBr

\* a lone LF before a CR LF pair
C26_WitnessLineFeedFirst ==
    /\ txPc = "html"
    /\ txText = <<"\n", "\r", "\n">>
    /\ txHtml = sBr \o sBr

-----------------------------------------------------------------------------
(* Properties of the resolved header fields *)

\* the values of the headers of a list whose name passes the test, in order
ValuesOfHeaders(headers, Named(_)) ==
    LET named == SelectSeq(headers, Named)
    IN  [i \in 1..Len(named) |-> named[i].value]

\* the resolved field is the value of the first header that passes the test,
\* and it is the fallback text exactly when there is none or that value is
\* empty
ResolvesTo(field, headers, Named(_), fallback) ==
    LET values == ValuesOfHeaders(headers, Named)
    IN  IF values = <<>> \/ values[1] = <<>> THEN field = fallback
        ELSE field = values[1] /\ field # fallback

\* C27: each of subject, from and to of a normalized message is the value of
\* the payload header named Subject, From or To, names compared without
\* regard to case, and it is (No Subject), (Unknown Sender) or
\* (Unknown Recipient) exactly when no such header exists or its value is
\* empty
C27_HeaderNamesCaseInsensitive ==
    (mbPc = "fulfilled" /\ Len(mbEmails) = 1) =>
        LET headers == mbRaw[1].payload.headers
            resolved == mbEmails[1].headers
        IN  /\ ResolvesTo(resolved.subject, headers,
                          LAMBDA h : SameIgnoringCase(h.name, sSubject), sNoSubject)
            /\ ResolvesTo(resolved.from, headers,
                          LAMBDA h : SameIgnoringCase(h.name, sFrom), sUnknownSender)
            /\ ResolvesTo(resolved.to, headers,
                          LAMBDA h : SameIgnoringCase(h.name, sTo), sUnknownRecipient)

\* what the code does: the same with the names compared character by
\* character, so that a header named subject or FROM is not read
C27_HeaderNamesExact ==
    (mbPc = "fulfilled" /\ Len(mbEmails) = 1) =>
        LET headers == mbRaw[1].payload.headers
            resolved == mbEmails[1].headers
        IN  /\ ResolvesTo(resolved.subject, headers, LAMBDA h : h.name = sSubject, sNoSubject)
            /\ ResolvesTo(resolved.from, headers, LAMBDA h : h.name = sFrom, sUnknownSender)
            /\ ResolvesTo(resolved.to, headers, LAMBDA h : h.name = sTo, sUnknownRecipient)

\* a message whose only header is subject: v has been normalized, and its
\* subject is the fallback text
C27_Witness ==
    /\ mbPc = "fulfilled"
    /\ mbRaw = <<rawWithHeaders(<<[name |-> toLowerCase(sSubject), value |-> <<"v">>]>>)>>
    /\ Len(mbEmails) = 1
    /\ mbEmails[1].headers.subject = sNoSubject

\* headers written as the code names them are resolved to their values
C27_WitnessExactNames ==
    /\ mbPc = "fulfilled"
    /\ mbRaw = <<rawWithHeaders(<<[name |-> sSubject, value |-> <<"v">>],
                                  [name |-> sTo, value |-> <<"w">>]>>)>>
    /\ Len(mbEmails) = 1
    /\ mbEmails[1].headers.subject = <<"v">>
    /\ mbEmails[1].headers.from = sUnknownSender
    /\ mbEmails[1].headers.to = <<"w">>

-----------------------------------------------------------------------------
(* Properties of the end options of the RecurrenceEditor *)

sUntilClause == sUNTIL \o <<"=">>

\* C28: in the RecurrenceEditor the choice of the end option "until" is
\* kept: in any enabled state, after the handler of the radio button "until"
\* the state derived from the emitted value has endType = until
C28_UntilChoiceKept == [][ChooseEndUntil => rrUi'.endType = "until"]_vars

\* what the code does: the radio button "until" gives endType = until only
\* where the value already has an UNTIL clause, and leaves the end option
\* "never" otherwise
C28_UntilChoiceKeptOnlyWithDate ==
    [][ChooseEndUntil =>
         rrUi'.endType = (IF rrUi.endType = "until" THEN "until" ELSE "never")]_vars

\* as long as no value with an UNTIL clause is handed to the editor from
\* outside or typed into its raw rule field, the editor emits none
C28_UntilOnlyFromOutside ==
    Contains(rrText, sUntilClause) => Contains(rrIn, sUntilClause)

\* the radio button "until" has been chosen in an enabled editor, and the
\* derived state says "never"
C28_Witness ==
    /\ rrPc = "endTypeUntil"
    /\ rrUi.enabled
    /\ rrUi.endType = "never"
    /\ ~Contains(rrText, sUntilClause)

\* the date field is reached from a value that has an UNTIL clause
C28_WitnessDatePicked ==
    /\ rrPc = "endUntil"
    /\ rrUi.endType = "until"
    /\ rrUi.endUntil = sDate

-----------------------------------------------------------------------------
(* Properties of opening a rule string in the UI adapter and saving it *)

\* the keys of the clauses the UI adapter has a field for
EditableKeys == {sFREQ, sINTERVAL, sCOUNT, sUNTIL, sBYDAY, sBYMONTHDAY}

\* s uses only FREQ, INTERVAL, and COUNT or a date-only UNTIL, with an
\* interval and a count of at least 1
UsesEditableClauses(s) ==
    LET rule == parseRRule(s)
        clauses == ClausesAfterPrefix(s)
    IN  /\ rule # Null
        /\ rule.freq \in Frequencies
        /\ \A i \in 1..Len(clauses) : toUpperCase(KeyOfClause(clauses[i])) \in EditableKeys
        /\ Has(rule, "interval") => ~IsNaN(rule.interval) /\ rule.interval >= 1
        /\ Has(rule, "count") => ~IsNaN(rule.count) /\ rule.count >= 1
        /\ ~(Has(rule, "count") /\ Has(rule, "until"))
        /\ Has(rule, "until") => Len(rule.until) = 8 /\ \A i \in 1..8 : IsDigit(rule.until[i])

\* the BYDAY and BYMONTHDAY clauses of s are bare weekdays under WEEKLY, and
\* under MONTHLY a single BYMONTHDAY or a single ordinal BYDAY, or none when
\* bare is allowed
UsesEditableDays(s, bare) ==
    LET rule == parseRRule(s)
        days == IF Has(rule, "byDay") THEN rule.byDay ELSE <<>>
        monthDays == IF Has(rule, "byMonthDay") THEN rule.byMonthDay ELSE <<>>
    IN  CASE rule.freq = sWEEKLY ->
               /\ monthDays = <<>>
               /\ \A i \in 1..Len(days) : IsSimpleDay(days[i])
          [] rule.freq = sMONTHLY ->
               \/ bare /\ days = <<>> /\ monthDays = <<>>
               \/ days = <<>> /\ Len(monthDays) = 1 /\ ~IsNaN(monthDays[1])
               \/ monthDays = <<>> /\ Len(days) = 1 /\ IsOrdinalDay(days[1])
          [] OTHER -> days = <<>> /\ monthDays = <<>>

\* C29: a rule string that uses only FREQ, INTERVAL, and COUNT or a date-only
\* UNTIL, plus bare weekdays in BYDAY when WEEKLY and at most one of a single
\* BYMONTHDAY or a single ordinal BYDAY when MONTHLY, keeps its meaning when
\* it is opened in the UI adapter and saved: the saved string parses to the
\* rule of the input up to the default interval, no clause added or removed
C29_OpenAndSaveKeepsMeaning ==
    (rrPc = "saved" /\ UsesEditableClauses(rrIn) /\ UsesEditableDays(rrIn, TRUE)) =>
        SameMeaning(parseRRule(rrText), parseRRule(rrIn))

\* what the code does: the meaning is kept when a MONTHLY rule has exactly
\* one of the two clauses; a MONTHLY rule without them is saved with
\* BYMONTHDAY=1
C29_OpenAndSaveKeepsMeaningWithMonthlyDay ==
    (rrPc = "saved" /\ UsesEditableClauses(rrIn)) =>
        /\ UsesEditableDays(rrIn, FALSE) => SameMeaning(parseRRule(rrText), parseRRule(rrIn))
        /\ (parseRRule(rrIn).freq = sMONTHLY /\ ~Has(parseRRule(rrIn), "byDay")
                /\ ~Has(parseRRule(rrIn), "byMonthDay"))
               => parseRRule(rrText).byMonthDay = <<1>>

\* FREQ=MONTHLY has been opened and saved, and the saved string has a
\* BYMONTHDAY clause
C29_Witness ==
    /\ rrPc = "saved"
    /\ rrIn = clause(sFREQ, sMONTHLY)
    /\ rrText = sRRULE \o clause(sFREQ, sMONTHLY) \o <<";">> \o clause(sBYMONTHDAY, <<"1">>)

\* a weekly rule with an interval and weekdays is saved as it was
C29_WitnessWeekly ==
    /\ rrPc = "saved"
    /\ rrIn = sRRULE \o clause(toLowerCase(sFREQ), toLowerCase(sWEEKLY)) \o <<";">>
                \o clause(sINTERVAL, <<"2">>) \o <<";">>
                \o clause(sBYDAY, join(<<sMO, sWE, sFR>>, <<",">>))
    /\ SameMeaning(parseRRule(rrText), parseRRule(rrIn))

-----------------------------------------------------------------------------
(* Properties of saving a UI state and opening it again *)

\* YYYY-MM-DD
IsCalendarDate(date) ==
    /\ Len(date) = 10
    /\ \A i \in {1, 2, 3, 4, 6, 7, 9, 10} : IsDigit(date[i])
    /\ date[5] = "-" /\ date[8] = "-"

\* an enabled state with interval and endCount of at least 1, weekday tokens
\* in weeklyDays and a calendar date in endUntil
IsEditableState(state) ==
    /\ state.enabled
    /\ state.interval >= 1
    /\ state.endCount >= 1
    /\ \A i \in 1..Len(state.weeklyDays) : IsSimpleDay(state.weeklyDays[i])
    /\ IsCalendarDate(state.endUntil)

\* C30: for every enabled UI state with interval >= 1, endCount >= 1, weekday
\* tokens in weeklyDays and a non-empty YYYY-MM-DD endUntil, the state read
\* back from the saved string has the same enabled, frequency, interval and
\* endType, the same end value for that endType, the same weeklyDays when
\* WEEKLY, and when MONTHLY the same monthlyType with the same
\* monthlyDayOfMonth or the same monthlyWeekOrdinal and monthlyWeekDay
C30_SaveAndOpenKeepsState ==
    (rrPc = "reloaded" /\ IsEditableState(rrIn)) =>
        /\ rrUi.enabled = rrIn.enabled
        /\ rrUi.freq = rrIn.freq
        /\ rrUi.interval = rrIn.interval
        /\ rrUi.endType = rrIn.endType
        /\ rrIn.endType = "count" => rrUi.endCount = rrIn.endCount
        /\ rrIn.endType = "until" => rrUi.endUntil = rrIn.endUntil
        /\ rrIn.freq = sWEEKLY => rrUi.weeklyDays = rrIn.weeklyDays
        /\ rrIn.freq = sMONTHLY =>
               /\ rrUi.monthlyType = rrIn.monthlyType
               /\ rrIn.monthlyType = "dayOfMonth" =>
                      rrUi.monthlyDayOfMonth = rrIn.monthlyDayOfMonth
               /\ rrIn.monthlyType = "dayOfWeek" =>
                      /\ rrUi.monthlyWeekOrdinal = rrIn.monthlyWeekOrdinal
                      /\ rrUi.monthlyWeekDay = rrIn.monthlyWeekDay

\* a monthly state on the last Friday that ends on a date has been saved and
\* opened again
C30_Witness ==
    /\ rrPc = "reloaded"
    /\ IsEditableState(rrIn)
    /\ rrIn.freq = sMONTHLY
    /\ rrIn.interval = 2
    /\ rrIn.monthlyType = "dayOfWeek"
    /\ rrIn.monthlyWeekOrdinal = -1
    /\ rrIn.monthlyWeekDay = sFR
    /\ rrIn.endType = "until"
    /\ rrUi.monthlyWeekOrdinal = -1
    /\ rrUi.monthlyWeekDay = sFR
    /\ rrUi.endUntil = sDate
    /\ Contains(rrText, sUntilClause \o s20251231)

=============================================================================
